---- MODULE Spec2Model ----
(***************************************************************************)
(* Mission Control backend (grimspyder/AgenticOps): the real-time          *)
(* coordination layer.                                                     *)
(*                                                                         *)
(*   - the volatile status cache of GET /api/openclaw/health and           *)
(*     GET /api/openclaw/sessions           (backend/src/index.js)         *)
(*   - the OpenClaw session reconciler      (openclaw integration module)  *)
(*   - POST /api/tasks/:taskId/progress     (backend/src/index.js)         *)
(*   - the event bus and the WebSocket hub  (events.js, websocket module)  *)
(*   - the notification fanout of the note, message and reply routes      *)
(*                                          (backend/src/index.js)         *)
(*   - the task life cycle: report, verify, reopen and the realtime       *)
(*     agent reports         (backend/src/index.js, websocket module)      *)
(*                                                                         *)
(* Node runs every handler on one thread: a handler runs without           *)
(* interruption up to its next await, so each action below is one such     *)
(* synchronous segment of a handler or promise callback.                   *)
(***************************************************************************)
EXTENDS Integers, Sequences, FiniteSets, TLC

\* JavaScript null / undefined
NULL == [null |-> TRUE]

\* null in a field or an input whose other values are strings
Nil == "null"

\* One row of the Activity table: its type, its action and whom or what
\* its description names
Activity(type, action, detail) ==
  [type |-> type, action |-> action, detail |-> detail]

(***************************************************************************)
(* Bounds of the model                                                     *)
(***************************************************************************)
NumCallers == 3      \* HTTP requests to the cached routes
MaxRefresh == 2      \* external calls started by the cached routes
MaxClock   == 2      \* clock ticks after start-up
ClockStep  == 15000  \* milliseconds per clock tick
MaxPolls   == 2      \* reconciler polls started (the initial sync and timer ticks)
NumReporters == 2    \* requests to POST /api/tasks/:taskId/progress
NumAssigns == 1      \* requests to POST /api/tasks/:taskId/assign
NumConns   == 2      \* WebSocket connections
MaxEvents  == 2      \* events published on the bus
NumPosts   == 1      \* requests to the note, message and reply routes
NumReplies == 2      \* reply requests to one thread
NumLiveCallers == 2  \* requests to the cached routes where answers are awaited
NumLifeReqs == 2     \* reports, verifies, reopens and realtime agent messages
MaxOpenLife == 1     \* of them, those being handled at the same time
NumEdits   == 2      \* requests to PUT and DELETE /api/tasks/:taskId and PUT /api/projects/:projectId
MaxOpenEdits == 1    \* of them, those being handled at the same time
NumVotes   == 4      \* requests to the upvote route
MaxOpenVotes == 2    \* of them, those being handled at the same time
NumChats   == 2      \* requests to POST /api/comms/message
MaxOpenChats == 1    \* of them, those being handled at the same time

\* The TTL both cached routes compare against (index.js:1299, 1352)
CacheTtlMs == 30000

(***************************************************************************)
(* State                                                                   *)
(***************************************************************************)
VARIABLES
  now,          \* Date.now(), in clock ticks
  cacheResult,  \* healthCache.result / sessionsCache.result, per key
  cacheTs,      \* healthCache.ts / sessionsCache.ts, per key (ticks; 0 = epoch)
  pending,      \* healthPending / sessionsPending: a promise id, or 0 for null
  promises,     \* the refresh promises created by the cached routes
  callers,      \* the HTTP requests to the cached routes
  knownSessions,\* the reconciler's Map, as its session ids in insertion order
  agents,       \* the Agent table of the record store, by unique name
  polls,        \* the executions of syncOpenClawAgents, in the order started
  task,         \* the Task row of the record store the requests address
  assignments,  \* the TaskAssignment table of the record store
  activities,   \* the Activity table of the record store (the action of each)
  reporters,    \* the requests to POST /api/tasks/:taskId/progress
  assigners,    \* the requests to POST /api/tasks/:taskId/assign
  sockets,      \* per WebSocket connection: its state and what it has sent
  clients,      \* the hub's Map ws -> info, as its entries in insertion order
  inbox,        \* per connection: the messages sent to it, in order
  emitted,      \* the number of events emitted on mcEvents so far
  lastEmit,     \* the latest mcEvents.emit: the event and how the call ended
  notes,        \* the Note table of the record store
  messages,     \* the Message table of the record store
  posts,        \* the requests to the note, message and reply routes
  dispatches,   \* the openclaw agent processes started by the fanout
  published,    \* the events the routes emitted on mcEvents, in order
  lifeReqs,     \* the report, verify and reopen requests and agent messages
  verifyDispatches, \* the verification requests dispatched to Atlas, in order
  project,      \* the Project row of the record store: progress and status
  others,       \* the other Task rows of the project: id and status
  listed,       \* whether the row `task` is in the Task table (not deleted)
  edits,        \* the requests to the task update and delete routes and
                \* to the project update route
  upvotes,      \* the column upvotes of the Message row the votes address
  votes,        \* the requests to the upvote route
  voteLog,      \* the updates of the column made so far, in order
  chats,        \* the requests to POST /api/comms/message and their calls
  commMessages, \* the CommMessage table of the record store, by id
  commEvents    \* the comms events emitted on mcEvents, in order

cacheVars == <<now, cacheResult, cacheTs, pending, promises, callers>>
pollVars == <<knownSessions, agents, polls>>
taskVars == <<task, assignments, activities, reporters, assigners>>
hubVars == <<sockets, clients, inbox, emitted, lastEmit>>
fanVars == <<notes, messages, posts, dispatches, published>>
lifeVars == <<lifeReqs, verifyDispatches>>
projVars == <<project, others, listed, edits>>
voteVars == <<upvotes, votes, voteLog>>
commsVars == <<chats, commMessages, commEvents>>

vars == <<now, cacheResult, cacheTs, pending, promises, callers,
          knownSessions, agents, polls,
          task, assignments, activities, reporters, assigners,
          sockets, clients, inbox, emitted, lastEmit,
          notes, messages, posts, dispatches, published,
          lifeReqs, verifyDispatches,
          project, others, listed, edits,
          upvotes, votes, voteLog,
          chats, commMessages, commEvents>>

(***************************************************************************)
(* Volatile status cache: index.js:1295-1378                               *)
(***************************************************************************)
Keys == {"health", "sessions"}
Callers == 1..NumCallers

\* Date.now() at start-up is far from the epoch: the first tick at which
\* Date.now() - 0 < 30000 is false.
StartClock == CHOOSE n \in 1..CacheTtlMs : /\ n * ClockStep >= CacheTtlMs
                                           /\ (n - 1) * ClockStep < CacheTtlMs

\* `openclaw gateway call status --json` output, parsed: the fields the
\* routes read.  has* = FALSE is a missing field (undefined).
StatusOutputs ==
  { [hasHeartbeat |-> FALSE, agents |-> <<>>, hasSessions |-> FALSE,
     recent |-> <<>>, count |-> 0],
    [hasHeartbeat |-> TRUE, agents |-> <<"main">>, hasSessions |-> TRUE,
     recent |-> <<"s1">>, count |-> 1],
    [hasHeartbeat |-> TRUE, agents |-> <<"main">>, hasSessions |-> TRUE,
     recent |-> <<"s1", "s2">>, count |-> 2] }

\* index.js:1362-1366: the cached sessions payload built from a status
SessionsResult(status) ==
  [agents   |-> IF status.hasHeartbeat THEN status.agents ELSE <<>>,
   sessions |-> IF status.hasSessions THEN status.recent ELSE <<>>,
   count    |-> IF status.hasSessions THEN status.count ELSE 0]

\* index.js:1374: the sessions payload of a cold cache after a failed refresh
SessionsDefault == [agents |-> <<>>, sessions |-> <<>>, count |-> 0]

\* index.js:1305: the cached health payload
HealthResult(isHealthy, t) ==
  [openclaw |-> IF isHealthy THEN "connected" ELSE "disconnected",
   timestamp |-> t]

\* index.js:1299 / 1352: Date.now() - cache.ts < 30000 && cache.result
IsFresh(k) ==
  /\ (now - cacheTs[k]) * ClockStep < CacheTtlMs
  /\ cacheResult[k] # NULL

MustStartRefreshAlways(k) == TRUE

\* index.js:1302 / 1355: if (!pending) start the external call
MustStartRefresh(k) == pending[k] = 0

\* The refresh promises of key k, and those whose external call has been
\* started and has not settled
PromisesOf(k) == {p \in DOMAIN promises : promises[p].key = k}
Outstanding(k) == {p \in PromisesOf(k) : promises[p].state = "pending"}
Settled(k) == {p \in PromisesOf(k) : promises[p].state = "resolved"}

IdleCaller == [state |-> "idle", key |-> "none", promise |-> 0,
               result |-> NULL, hit |-> FALSE, epoch |-> 0, at |-> 0]

CacheInit ==
  /\ now = StartClock
  /\ cacheResult = [k \in Keys |-> NULL]
  /\ cacheTs = [k \in Keys |-> 0]
  /\ pending = [k \in Keys |-> 0]
  /\ promises = <<>>
  /\ callers = [c \in Callers |-> IdleCaller]

\* The synchronous body of the GET handler (index.js:1298-1316, 1351-1378):
\* serve a fresh entry, or start the refresh if none is pending, and return
\* the pending promise.  epoch (the refreshes of the key settled so far) and
\* at (the time of the request) record when the request arrived; the
\* callers are numbered in the order of their arrival.
Request(c, k) ==
  /\ callers[c].state = "idle"
  /\ \A b \in Callers : b < c => callers[b].state # "idle"
  /\ IF IsFresh(k)
       THEN /\ callers' = [callers EXCEPT ![c] =
                 [state |-> "done", key |-> k, promise |-> 0,
                  result |-> cacheResult[k], hit |-> TRUE,
                  epoch |-> Cardinality(Settled(k)), at |-> now]]
            /\ UNCHANGED <<pending, promises>>
       ELSE IF MustStartRefresh(k)
         THEN /\ Len(promises) < MaxRefresh
              /\ promises' = Append(promises,
                    [key |-> k, state |-> "pending", value |-> NULL,
                     epoch |-> Cardinality(Settled(k)), failed |-> FALSE])
              /\ pending' = [pending EXCEPT ![k] = Len(promises) + 1]
              /\ callers' = [callers EXCEPT ![c] =
                   [state |-> "waiting", key |-> k,
                    promise |-> Len(promises) + 1, result |-> NULL,
                    hit |-> FALSE, epoch |-> Cardinality(Settled(k)),
                    at |-> now]]
         ELSE /\ callers' = [callers EXCEPT ![c] =
                   [state |-> "waiting", key |-> k, promise |-> pending[k],
                    result |-> NULL, hit |-> FALSE,
                    epoch |-> Cardinality(Settled(k)), at |-> now]]
              /\ UNCHANGED <<pending, promises>>
  /\ UNCHANGED <<now, cacheResult, cacheTs>>

\* index.js:1359-1370: the .then of the sessions refresh p: the process
\* exited normally and JSON.parse accepted its output
SessionsRefreshOk(p, status) ==
  /\ p \in Outstanding("sessions")
  /\ cacheResult' = [cacheResult EXCEPT !["sessions"] = SessionsResult(status)]
  /\ cacheTs' = [cacheTs EXCEPT !["sessions"] = now]
  /\ pending' = [pending EXCEPT !["sessions"] = 0]
  /\ promises' = [promises EXCEPT ![p] =
        [@ EXCEPT !.state = "resolved", !.value = SessionsResult(status)]]
  /\ UNCHANGED <<now, callers>>

\* index.js:1373-1374: what the .catch of the sessions refresh resolves to
SessionsCatchValue ==
  IF cacheResult["sessions"] # NULL THEN cacheResult["sessions"]
  ELSE SessionsDefault

\* SessionsRefreshFail with a .catch that does not clear sessionsPending
SessionsRefreshFailKeepsMarker(p) ==
  /\ p \in Outstanding("sessions")
  /\ promises' = [promises EXCEPT ![p] =
        [@ EXCEPT !.state = "resolved", !.value = SessionsCatchValue,
                  !.failed = TRUE]]
  /\ UNCHANGED <<now, cacheResult, cacheTs, callers, pending>>

\* index.js:1371-1375: the .catch of the sessions refresh p (the process
\* failed or timed out, or JSON.parse threw on its output)
SessionsRefreshFail(p) ==
  /\ p \in Outstanding("sessions")
  /\ pending' = [pending EXCEPT !["sessions"] = 0]
  /\ promises' = [promises EXCEPT ![p] =
        [@ EXCEPT !.state = "resolved", !.value = SessionsCatchValue,
                  !.failed = TRUE]]
  /\ UNCHANGED <<now, cacheResult, cacheTs, callers>>

\* index.js:1303-1309: the .then of the health refresh p.  checkOpenClawHealth
\* catches every failure of the external process and resolves to false
\* (its try/catch returns true or false), so the .catch of
\* index.js:1310-1313 never runs.
HealthRefreshDone(p, isHealthy) ==
  /\ p \in Outstanding("health")
  /\ cacheResult' = [cacheResult EXCEPT !["health"] = HealthResult(isHealthy, now)]
  /\ cacheTs' = [cacheTs EXCEPT !["health"] = now]
  /\ pending' = [pending EXCEPT !["health"] = 0]
  /\ promises' = [promises EXCEPT ![p] =
        [@ EXCEPT !.state = "resolved", !.value = HealthResult(isHealthy, now),
                  !.failed = ~isHealthy]]
  /\ UNCHANGED <<now, callers>>

WaiterValueFromCache(c) == cacheResult[callers[c].key]

\* index.js:1315 / 1377: return pending -- the reply is what the promise the
\* handler returned resolves to
WaiterValue(c) == promises[callers[c].promise].value

\* The promise the handler returned has settled: the reply is sent
Respond(c) ==
  /\ callers[c].state = "waiting"
  /\ promises[callers[c].promise].state = "resolved"
  /\ callers' = [callers EXCEPT ![c] =
        [@ EXCEPT !.state = "done", !.result = WaiterValue(c)]]
  /\ UNCHANGED <<now, cacheResult, cacheTs, pending, promises>>

\* Time passes
Tick ==
  /\ now < StartClock + MaxClock
  /\ now' = now + 1
  /\ UNCHANGED <<cacheResult, cacheTs, pending, promises, callers>>

CacheNext ==
  \/ \E c \in Callers, k \in Keys : Request(c, k) /\ UNCHANGED <<pollVars, taskVars, hubVars, fanVars, lifeVars, projVars, voteVars, commsVars>>
  \/ \E p \in DOMAIN promises, status \in StatusOutputs :
        SessionsRefreshOk(p, status) /\ UNCHANGED <<pollVars, taskVars, hubVars, fanVars, lifeVars, projVars, voteVars, commsVars>>
  \/ \E p \in DOMAIN promises : SessionsRefreshFail(p) /\ UNCHANGED <<pollVars, taskVars, hubVars, fanVars, lifeVars, projVars, voteVars, commsVars>>
  \/ \E p \in DOMAIN promises, isHealthy \in BOOLEAN :
        HealthRefreshDone(p, isHealthy) /\ UNCHANGED <<pollVars, taskVars, hubVars, fanVars, lifeVars, projVars, voteVars, commsVars>>
  \/ \E c \in Callers : Respond(c) /\ UNCHANGED <<pollVars, taskVars, hubVars, fanVars, lifeVars, projVars, voteVars, commsVars>>
  \/ Tick /\ UNCHANGED <<pollVars, taskVars, hubVars, fanVars, lifeVars, projVars, voteVars, commsVars>>

(***************************************************************************)
(* External session reconciler: the OpenClaw integration module            *)
(***************************************************************************)

\* The sessions the external process may report: sessionId -> key, the key
\* as its ':'-separated parts
SessionIds == {"sA", "sB", "sM"}
SessionKey(sid) ==
  CASE sid = "sA" -> <<"agent", "main", "subagent", "a">>
    [] sid = "sB" -> <<"agent", "main", "subagent", "b">>
    [] sid = "sM" -> <<"agent", "main", "main">>

\* key?.includes(':subagent:') and key?.includes(':direct:'): the part
\* stands between two ':'
KeyIncludes(key, part) == \E i \in 2..(Len(key) - 1) : key[i] = part
IsSubAgent(sid) == KeyIncludes(SessionKey(sid), "subagent")
IsDirect(sid) == KeyIncludes(SessionKey(sid), "direct")

\* registerOpenClawAgent: key.split(':').slice(0, 3).join(':')
AgentName(sid) == SubSeq(SessionKey(sid), 1, 3)

\* What `status.sessions.recent` can list: the live sessions, in a fixed order
SessionLists ==
  { <<>>, <<"sA">>, <<"sB">>, <<"sM">>, <<"sA", "sB">>, <<"sA", "sM">>,
    <<"sB", "sM">>, <<"sA", "sB", "sM">> }

Range(seq) == {seq[i] : i \in DOMAIN seq}
Remove(seq, x) == SelectSeq(seq, LAMBDA y : y # x)

IdlePoll == [pc |-> "idle", sessions |-> <<>>, failed |-> FALSE, i |-> 0,
             cur |-> "none", found |-> FALSE, pos |-> 0]
DonePoll == [IdlePoll EXCEPT !.pc = "done"]

PollIds == 1..MaxPolls
InFlight == {q \in PollIds : polls[q].pc \notin {"idle", "done"}}

PollInit ==
  /\ knownSessions = <<>>
  /\ agents = [n \in {} |-> NULL]
  /\ polls = [q \in PollIds |-> IdlePoll]

\* startPolling: the initial sync and each tick of the interval call
\* syncOpenClawAgents, which runs to the await in fetchOpenClawSessions.
\* Neither looks at whether an earlier call is still running.
StartPoll(q) ==
  /\ polls[q].pc = "idle"
  /\ \A r \in PollIds : r < q => polls[r].pc # "idle"
  /\ polls' = [polls EXCEPT ![q] = [IdlePoll EXCEPT !.pc = "fetch"]]
  /\ UNCHANGED <<knownSessions, agents>>

\* The second loop of syncOpenClawAgents (lines 125-140) from the entry
\* after position pos of the Map, up to its next await: entries still listed
\* or not of a sub-agent are passed; the first other one is deleted and the
\* loop awaits prisma.agent.updateMany.
RECURSIVE RunSweep(_, _, _)
RunSweep(known, sessions, pos) ==
  IF pos >= Len(known)
    THEN [known |-> known, pc |-> "done", cur |-> "none", pos |-> pos,
          i |-> 0, deleted |-> 0]
    ELSE LET sid == known[pos + 1] IN
         IF sid \notin Range(sessions) /\ IsSubAgent(sid)
           THEN [known |-> Remove(known, sid), pc |-> "offline", cur |-> sid,
                 pos |-> pos, i |-> 0, deleted |-> pos + 1]
           ELSE RunSweep(known, sessions, pos + 1)

\* The first loop of syncOpenClawAgents (lines 100-122) from sessions[i], up
\* to its next await: known sessions are skipped, a new one is put in the
\* Map and, if of a sub-agent or direct, registered (the loop awaits
\* registerOpenClawAgent); after the last session the second loop starts.
RECURSIVE RunLoop(_, _, _)
RunLoop(known, sessions, i) ==
  IF i > Len(sessions)
    THEN RunSweep(known, sessions, 0)
    ELSE LET sid == sessions[i] IN
         IF sid \in Range(known)
           THEN RunLoop(known, sessions, i + 1)
           ELSE IF IsSubAgent(sid) \/ IsDirect(sid)
             THEN [known |-> Append(known, sid), pc |-> "regFind",
                   cur |-> sid, pos |-> 0, i |-> i, deleted |-> 0]
             ELSE RunLoop(Append(known, sid), sessions, i + 1)

\* Continue poll q as `run` says.  Deleting entry `deleted` of the Map moves
\* the iterators of the other polls that have passed it.
Continue(q, run, sessions, failed) ==
  /\ knownSessions' = run.known
  /\ polls' = [r \in PollIds |->
       IF r = q
         THEN IF run.pc = "done" THEN DonePoll
              ELSE [pc |-> run.pc, sessions |-> sessions, failed |-> failed,
                    i |-> run.i, cur |-> run.cur, found |-> FALSE,
                    pos |-> run.pos]
         ELSE IF /\ run.deleted > 0
                 /\ polls[r].pc = "offline"
                 /\ polls[r].pos >= run.deleted
           THEN [polls[r] EXCEPT !.pos = @ - 1]
           ELSE polls[r]]

\* fetchOpenClawSessions, lines 35-36: the status was read and parsed
FetchedSessions(list) == list

\* fetchOpenClawSessions, lines 37-40: the catch returns no sessions
FetchFailedSessions == <<>>

\* fetchOpenClawSessions returns (execSync gave a status listing `list`, or
\* it threw, timed out or JSON.parse threw) and syncOpenClawAgents runs on
FetchDone(q, ok, list) ==
  /\ polls[q].pc = "fetch"
  /\ ok \/ list = <<>>
  /\ LET sessions == IF ok THEN FetchedSessions(list) ELSE FetchFailedSessions
     IN Continue(q, RunLoop(knownSessions, sessions, 1), sessions, ~ok)
  /\ UNCHANGED agents

\* registerOpenClawAgent, lines 55-57: prisma.agent.findUnique({name})
\* answers; a throw is caught (lines 84-87) and the first loop goes on
RegFind(q, ok) ==
  /\ polls[q].pc = "regFind"
  /\ IF ok
       THEN /\ polls' = [polls EXCEPT ![q] =
                 [@ EXCEPT !.pc = "regWrite",
                           !.found = AgentName(polls[q].cur) \in DOMAIN agents]]
            /\ UNCHANGED knownSessions
       ELSE Continue(q, RunLoop(knownSessions, polls[q].sessions, polls[q].i + 1),
                     polls[q].sessions, polls[q].failed)
  /\ UNCHANGED agents

\* The Agent table with key `name` set to `rec`
PutAgent(name, rec) ==
  [n \in DOMAIN agents \cup {name} |-> IF n = name THEN rec ELSE agents[n]]

\* registerOpenClawAgent, lines 59-81: update the agent found, or create
\* one; a throw (also: the record found is gone, the name exists by now) is
\* caught and the first loop goes on
RegWrite(q, ok) ==
  /\ polls[q].pc = "regWrite"
  /\ LET sid == polls[q].cur
         name == AgentName(sid)
     IN agents' =
          IF ~ok THEN agents
          ELSE IF polls[q].found
            THEN IF name \in DOMAIN agents
                   THEN PutAgent(name, [agents[name] EXCEPT
                                   !.status = "active", !.currentTaskId = sid])
                   ELSE agents
            ELSE IF name \in DOMAIN agents THEN agents
                 ELSE PutAgent(name,
                        [status |-> "active", currentTaskId |-> sid,
                         role |-> IF IsSubAgent(sid) THEN "subagent" ELSE "main"])
  /\ Continue(q, RunLoop(knownSessions, polls[q].sessions, polls[q].i + 1),
              polls[q].sessions, polls[q].failed)

\* syncOpenClawAgents, lines 131-138: prisma.agent.updateMany marks offline
\* the agents whose currentTaskId is the session; a throw is ignored; the
\* second loop goes on
MarkOffline(q, ok) ==
  /\ polls[q].pc = "offline"
  /\ agents' =
       IF ok
         THEN [n \in DOMAIN agents |->
                 IF agents[n].currentTaskId = polls[q].cur
                   THEN [agents[n] EXCEPT !.status = "offline"]
                   ELSE agents[n]]
         ELSE agents
  /\ Continue(q, RunSweep(knownSessions, polls[q].sessions, polls[q].pos),
              polls[q].sessions, polls[q].failed)

PollNext ==
  \/ \E q \in PollIds : StartPoll(q) /\ UNCHANGED <<cacheVars, taskVars, hubVars, fanVars, lifeVars, projVars, voteVars, commsVars>>
  \/ \E q \in PollIds, ok \in BOOLEAN, list \in SessionLists :
        FetchDone(q, ok, list) /\ UNCHANGED <<cacheVars, taskVars, hubVars, fanVars, lifeVars, projVars, voteVars, commsVars>>
  \/ \E q \in PollIds, ok \in BOOLEAN : RegFind(q, ok) /\ UNCHANGED <<cacheVars, taskVars, hubVars, fanVars, lifeVars, projVars, voteVars, commsVars>>
  \/ \E q \in PollIds, ok \in BOOLEAN : RegWrite(q, ok) /\ UNCHANGED <<cacheVars, taskVars, hubVars, fanVars, lifeVars, projVars, voteVars, commsVars>>
  \/ \E q \in PollIds, ok \in BOOLEAN : MarkOffline(q, ok) /\ UNCHANGED <<cacheVars, taskVars, hubVars, fanVars, lifeVars, projVars, voteVars, commsVars>>


(***************************************************************************)
(* Task assignment routes: index.js:602-731                                *)
(***************************************************************************)
Reporters == 1..NumReporters
Assigners == 1..NumAssigns
AgentNames == {"Scout", "Forge"}
ProgressValues == {0, 50, 100}

\* JSON.stringify and JSON.parse of the values the routes store: the text
\* holds the value, and is not the value
Stringify(v) == [json |-> v]
Parse(text) == text.json

IdleRequest == [pc |-> "idle"]

TaskInit ==
  /\ task = [status |-> "pending", assignee |-> Nil, assignedBy |-> Nil,
             assignment |-> NULL, progress |-> 0, verified |-> FALSE,
             verifiedBy |-> Nil, verifiedAt |-> Nil, completedAt |-> Nil]
  /\ assignments = <<>>
  /\ activities = <<>>
  /\ reporters = [r \in Reporters |-> IdleRequest]
  /\ assigners = [a \in Assigners |-> IdleRequest]

\* index.js:615-628: the statusHistory an assignment is created with
SeedHistory(to, by) ==
  << [status |-> "pending", changedBy |-> "system"],
     [status |-> "assigned", changedBy |-> by] >>

\* POST /api/tasks/:taskId/assign, lines 605-630: the handler runs to the
\* await of prisma.taskAssignment.create
AssignCall(a, to, by) ==
  /\ assigners[a].pc = "idle"
  /\ \A b \in Assigners : b < a => assigners[b].pc # "idle"
  /\ assigners' = [assigners EXCEPT ![a] =
        [pc |-> "create", to |-> to, by |-> by]]
  /\ UNCHANGED <<task, assignments, activities, reporters>>

\* lines 609-642: the assignment row is created and the handler goes on to
\* the await of prisma.task.update; a throw ends the request with 500
AssignCreate(a, ok) ==
  /\ assigners[a].pc = "create"
  /\ IF ok
       THEN LET row == [id |-> Len(assignments) + 1,
                        assignedTo |-> assigners[a].to,
                        assignedBy |-> assigners[a].by,
                        statusHistory |->
                          Stringify(SeedHistory(assigners[a].to, assigners[a].by)),
                        responses |-> NULL, currentAction |-> NULL,
                        progress |-> 0]
            IN /\ assignments' = Append(assignments, row)
               /\ assigners' = [assigners EXCEPT ![a] =
                     [pc |-> "update", to |-> assigners[a].to,
                      by |-> assigners[a].by, row |-> row]]
       ELSE /\ assigners' = [assigners EXCEPT ![a] = [pc |-> "failed"]]
            /\ UNCHANGED assignments
  /\ UNCHANGED <<task, activities, reporters>>

\* part_008 lines 183-187: the statusHistory assignTaskToAgent creates an
\* assignment with
OpenClawSeedHistory ==
  << [status |-> "assigned", changedBy |-> "dashboard"] >>

\* POST /api/openclaw/assign, index.js lines 1319-1325: the handler runs to
\* the await of prisma.task.findUnique
OpenClawAssignCall(a, agentName) ==
  /\ assigners[a].pc = "idle"
  /\ \A b \in Assigners : b < a => assigners[b].pc # "idle"
  /\ assigners' = [assigners EXCEPT ![a] = [pc |-> "ocFind", to |-> agentName]]
  /\ UNCHANGED <<task, assignments, activities, reporters>>

\* index.js lines 1325-1333, part_008 lines 171-173: the task is read (the
\* model's task exists), assignTaskToAgent is called and runs to the await
\* of fetchOpenClawSessions; a throw ends the request with 500
OpenClawAssignFind(a, ok) ==
  /\ assigners[a].pc = "ocFind"
  /\ assigners' = [assigners EXCEPT ![a] =
        IF ok THEN [pc |-> "ocSessions", to |-> assigners[a].to]
        ELSE [pc |-> "failed"]]
  /\ UNCHANGED <<task, assignments, activities, reporters>>

\* part_008 lines 173-199: the sessions are fetched and the session of the
\* agent looked up (target: its sessionId, or none).  Without it
\* assignTaskToAgent throws and the request ends with 500; with it the
\* handler goes on to the await of prisma.taskAssignment.create
OpenClawAssignSessions(a, target) ==
  /\ assigners[a].pc = "ocSessions"
  /\ assigners' = [assigners EXCEPT ![a] =
        IF target = Nil THEN [pc |-> "failed"]
        ELSE [pc |-> "ocCreate", to |-> assigners[a].to, session |-> target]]
  /\ UNCHANGED <<task, assignments, activities, reporters>>

\* part_008 lines 183-213: the assignment row is created and the handler
\* goes on to the await of prisma.task.update, whose assignment JSON is
\* the row with the session added
OpenClawAssignCreate(a, ok) ==
  /\ assigners[a].pc = "ocCreate"
  /\ IF ok
       THEN LET row == [id |-> Len(assignments) + 1,
                        assignedTo |-> assigners[a].to,
                        assignedBy |-> "dashboard",
                        statusHistory |-> Stringify(OpenClawSeedHistory),
                        responses |-> NULL, currentAction |-> NULL,
                        progress |-> 0]
            IN /\ assignments' = Append(assignments, row)
               /\ assigners' = [assigners EXCEPT ![a] =
                     [pc |-> "update", to |-> assigners[a].to,
                      by |-> "dashboard",
                      row |-> [id |-> row.id, assignedTo |-> row.assignedTo,
                               assignedBy |-> row.assignedBy,
                               statusHistory |-> row.statusHistory,
                               responses |-> NULL, currentAction |-> NULL,
                               progress |-> 0,
                               sessionId |-> assigners[a].session]]]
       ELSE /\ assigners' = [assigners EXCEPT ![a] = [pc |-> "failed"]]
            /\ UNCHANGED assignments
  /\ UNCHANGED <<task, activities, reporters>>

\* lines 633-653 (part_008 lines 199-215 for an assignment through
\* OpenClaw): the task row is updated; the handler reads the task back
\* (its title and project, which no request changes) and goes on to the
\* await of prisma.activity.create
AssignUpdate(a, ok) ==
  /\ assigners[a].pc = "update"
  /\ IF ok
       THEN /\ task' = [task EXCEPT !.assignee = assigners[a].to,
                                    !.assignedBy = assigners[a].by,
                                    !.status = "assigned",
                                    !.assignment = Stringify(assigners[a].row)]
            /\ assigners' = [assigners EXCEPT ![a] = [pc |-> "activity"]]
       ELSE /\ assigners' = [assigners EXCEPT ![a] = [pc |-> "failed"]]
            /\ UNCHANGED task
  /\ UNCHANGED <<assignments, activities, reporters>>

\* lines 646-659 (part_008 lines 215-229): the activity is created and the
\* assignment returned
AssignActivity(a, ok) ==
  /\ assigners[a].pc = "activity"
  /\ IF ok
       THEN /\ activities' = Append(activities, Activity("task", "assigned", Nil))
            /\ assigners' = [assigners EXCEPT ![a] = [pc |-> "succeeded"]]
       ELSE /\ assigners' = [assigners EXCEPT ![a] = [pc |-> "failed"]]
            /\ UNCHANGED activities
  /\ UNCHANGED <<task, assignments, reporters>>

\* POST /api/tasks/:taskId/progress, lines 664-669: the handler runs to the
\* await of prisma.task.findUnique
ProgressCall(r, agentName, progress) ==
  /\ reporters[r].pc = "idle"
  /\ \A b \in Reporters : b < r => reporters[b].pc # "idle"
  /\ reporters' = [reporters EXCEPT ![r] =
        [pc |-> "read", agentName |-> agentName, progress |-> progress]]
  /\ UNCHANGED <<task, assignments, activities, assigners>>

\* lines 689-690: the responses of the assignment read, with the new one
NewResponses(assignment, response) ==
  Append(IF assignment.responses # NULL THEN Parse(assignment.responses)
         ELSE <<>>,
         response)

\* lines 700-706: the task status the progress gives
ProgressStatus(status, progress) ==
  IF progress >= 100 THEN "done"
  ELSE IF progress > 0 THEN "in_progress"
  ELSE status

\* lines 667-714: the task is read; without an assignment the request ends
\* with 404; else the handler builds the response, the updated assignment
\* and the new status from what it read, and goes on to the await of
\* prisma.task.update
ProgressRead(r, ok) ==
  /\ reporters[r].pc = "read"
  /\ IF ~ok \/ task.assignment = NULL
       THEN reporters' = [reporters EXCEPT ![r] = [pc |-> "failed"]]
       ELSE LET assignment == Parse(task.assignment)
                response == [id |-> r, agentName |-> reporters[r].agentName,
                             progress |-> reporters[r].progress]
                updated == [assignment EXCEPT
                              !.currentAction = "report",
                              !.progress = reporters[r].progress,
                              !.responses =
                                 Stringify(NewResponses(assignment, response))]
            IN reporters' = [reporters EXCEPT ![r] =
                 [pc |-> "write", response |-> response,
                  assignmentId |-> assignment.id,
                  newStatus |-> ProgressStatus(task.status, reporters[r].progress),
                  newAssignment |-> Stringify(updated)]]
  /\ UNCHANGED <<task, assignments, activities, assigners>>

\* lines 708-724: the task row is updated and the handler goes on to the
\* await of prisma.activity.create; a throw ends the request with 500
ProgressWrite(r, ok) ==
  /\ reporters[r].pc = "write"
  /\ IF ok
       THEN /\ task' = [task EXCEPT !.status = reporters[r].newStatus,
                                    !.assignment = reporters[r].newAssignment]
            /\ reporters' = [reporters EXCEPT ![r] =
                 [pc |-> "activity", response |-> reporters[r].response,
                  assignmentId |-> reporters[r].assignmentId]]
       ELSE /\ reporters' = [reporters EXCEPT ![r] = [pc |-> "failed"]]
            /\ UNCHANGED task
  /\ UNCHANGED <<assignments, activities, assigners>>

\* lines 717-730: the activity is created and the response returned
ProgressActivity(r, ok) ==
  /\ reporters[r].pc = "activity"
  /\ IF ok
       THEN /\ activities' = Append(activities, Activity("task", "progress", reporters[r].response.agentName))
            /\ reporters' = [reporters EXCEPT ![r] =
                 [pc |-> "succeeded", response |-> reporters[r].response,
                  assignmentId |-> reporters[r].assignmentId]]
       ELSE /\ reporters' = [reporters EXCEPT ![r] = [pc |-> "failed"]]
            /\ UNCHANGED activities
  /\ UNCHANGED <<task, assignments, assigners>>

TaskNext ==
  \/ \E a \in Assigners, to \in AgentNames :
        AssignCall(a, to, "ATLAS") /\ UNCHANGED <<cacheVars, pollVars, hubVars, fanVars, lifeVars, projVars, voteVars, commsVars>>
  \/ \E a \in Assigners, ok \in BOOLEAN :
        AssignCreate(a, ok) /\ UNCHANGED <<cacheVars, pollVars, hubVars, fanVars, lifeVars, projVars, voteVars, commsVars>>
  \/ \E a \in Assigners, ok \in BOOLEAN :
        AssignUpdate(a, ok) /\ UNCHANGED <<cacheVars, pollVars, hubVars, fanVars, lifeVars, projVars, voteVars, commsVars>>
  \/ \E a \in Assigners, ok \in BOOLEAN :
        AssignActivity(a, ok) /\ UNCHANGED <<cacheVars, pollVars, hubVars, fanVars, lifeVars, projVars, voteVars, commsVars>>
  \/ \E a \in Assigners, n \in AgentNames :
        OpenClawAssignCall(a, n) /\ UNCHANGED <<cacheVars, pollVars, hubVars, fanVars, lifeVars, projVars, voteVars, commsVars>>
  \/ \E a \in Assigners, ok \in BOOLEAN :
        OpenClawAssignFind(a, ok) /\ UNCHANGED <<cacheVars, pollVars, hubVars, fanVars, lifeVars, projVars, voteVars, commsVars>>
  \/ \E a \in Assigners, target \in {"sA", Nil} :
        OpenClawAssignSessions(a, target) /\ UNCHANGED <<cacheVars, pollVars, hubVars, fanVars, lifeVars, projVars, voteVars, commsVars>>
  \/ \E a \in Assigners, ok \in BOOLEAN :
        OpenClawAssignCreate(a, ok) /\ UNCHANGED <<cacheVars, pollVars, hubVars, fanVars, lifeVars, projVars, voteVars, commsVars>>
  \/ \E r \in Reporters, n \in AgentNames, p \in ProgressValues :
        ProgressCall(r, n, p) /\ UNCHANGED <<cacheVars, pollVars, hubVars, fanVars, lifeVars, projVars, voteVars, commsVars>>
  \/ \E r \in Reporters, ok \in BOOLEAN :
        ProgressRead(r, ok) /\ UNCHANGED <<cacheVars, pollVars, hubVars, fanVars, lifeVars, projVars, voteVars, commsVars>>
  \/ \E r \in Reporters, ok \in BOOLEAN :
        ProgressWrite(r, ok) /\ UNCHANGED <<cacheVars, pollVars, hubVars, fanVars, lifeVars, projVars, voteVars, commsVars>>
  \/ \E r \in Reporters, ok \in BOOLEAN :
        ProgressActivity(r, ok) /\ UNCHANGED <<cacheVars, pollVars, hubVars, fanVars, lifeVars, projVars, voteVars, commsVars>>

(***************************************************************************)
(* Event bus (events.js) and WebSocket hub (the websocket routes module)   *)
(***************************************************************************)
Conns == 1..NumConns

\* The event kinds published in the model, of those websocketRoutes
\* subscribes to (lines 231-236)
EventKinds == {"task:updated", "note:new"}

\* mcEvents.on(kind, data => broadcast(kind, data)): the listeners of a
\* kind, in the order registered
Listeners(kind) == IF kind \in EventKinds THEN <<"broadcast">> ELSE <<>>

\* What a dashboard:subscribe message can carry as payload.subscriptions;
\* given = FALSE is a payload without the field
SubscriptionChoices ==
  { [given |-> FALSE, kinds |-> {}], [given |-> TRUE, kinds |-> {"task"}],
    [given |-> TRUE, kinds |-> {"*"}] }

\* line 180: payload.subscriptions || ['*']
DeclaredSubscriptions(subs) == IF subs.given THEN subs.kinds ELSE {"*"}

\* A connection: the socket's state, whether it has declared subscriptions,
\* whether its snapshot is being read, and where its agent:register handler
\* stands
NoSocket == [state |-> "none", subscribed |-> FALSE, subscribing |-> FALSE,
             reg |-> "none", stat |-> "none"]
NoEmit == [id |-> 0, listeners |-> 0, sendThrew |-> FALSE,
           outcome |-> "none", invoked |-> 0]

HubInit ==
  /\ sockets = [ws \in Conns |-> NoSocket]
  /\ clients = <<>>
  /\ inbox = [ws \in Conns |-> <<>>]
  /\ emitted = 0
  /\ lastEmit = NoEmit

Registered == {clients[i].ws : i \in DOMAIN clients}
InfoOf(ws) == clients[CHOOSE i \in DOMAIN clients : clients[i].ws = ws]

\* clients.set(ws, info): a new key goes last, a known key keeps its place
MapSet(ws, info) ==
  IF ws \in Registered
    THEN [i \in DOMAIN clients |->
            IF clients[i].ws = ws THEN info ELSE clients[i]]
    ELSE Append(clients, info)

\* clients.delete(ws)
MapDelete(ws) == SelectSeq(clients, LAMBDA c : c.ws # ws)

DeliverFirst(box, msg) == <<msg>> \o box

\* ws.send(message): the message follows those sent before on the connection
Deliver(box, msg) == Append(box, msg)

SendErrorEndsLoop(i) == [next |-> Len(clients) + 1, threw |-> FALSE]
SendErrorPropagates(i) == [next |-> Len(clients) + 1, threw |-> TRUE]

\* broadcast, lines 19-21: the catch inside the loop logs the error of the
\* send to entry i; the loop goes on with the next entry
OnSendError(i) == [next |-> i + 1, threw |-> FALSE]

\* broadcast, lines 14-22, from entry i of the Map: every entry whose socket
\* is open is sent the message, whatever its info; `failing` are the
\* connections whose send throws
RECURSIVE BroadcastFrom(_, _, _, _)
BroadcastFrom(i, boxes, msg, failing) ==
  IF i > Len(clients) THEN [boxes |-> boxes, threw |-> FALSE]
  ELSE LET ws == clients[i].ws IN
       IF sockets[ws].state # "open"
         THEN BroadcastFrom(i + 1, boxes, msg, failing)
         ELSE IF ws \in failing
           THEN IF OnSendError(i).threw
                  THEN [boxes |-> boxes, threw |-> TRUE]
                  ELSE BroadcastFrom(OnSendError(i).next, boxes, msg, failing)
           ELSE BroadcastFrom(i + 1,
                  [boxes EXCEPT ![ws] = Deliver(@, msg)], msg, failing)

\* broadcast(eventType, data), lines 11-23.  The payloads the routes publish
\* are records of the store and fields of the request: JSON.stringify
\* (line 12) takes them.
Broadcast(boxes, msg, failing) == BroadcastFrom(1, boxes, msg, failing)

\* EventEmitter.emit: the listeners of the kind are called in order, in the
\* caller's stack; a listener that throws ends the emit, and the error
\* reaches the caller
RECURSIVE EmitFrom(_, _, _, _)
EmitFrom(j, boxes, msg, failing) ==
  IF j > Len(Listeners(msg.type))
    THEN [boxes |-> boxes, threw |-> FALSE, invoked |-> j - 1]
    ELSE LET run == Broadcast(boxes, msg, failing) IN
         IF run.threw
           THEN [boxes |-> run.boxes, threw |-> TRUE, invoked |-> j]
           ELSE EmitFrom(j + 1, run.boxes, msg, failing)

\* A connection opens: websocketRoutes, lines 239-264, sends the welcome
Connect(ws) ==
  /\ sockets[ws].state = "none"
  /\ \A v \in Conns : v < ws => sockets[v].state # "none"
  /\ sockets' = [sockets EXCEPT ![ws] = [@ EXCEPT !.state = "open"]]
  /\ inbox' = [inbox EXCEPT ![ws] = Deliver(@, [type |-> "welcome", id |-> 0])]
  /\ UNCHANGED <<clients, emitted, lastEmit>>

\* handleMessage, dashboard:subscribe, lines 176-188: the connection is put
\* in the Map and the handler awaits the reads of the snapshot.  A client
\* declares its subscriptions once; of the open connections that have not
\* yet done so, which are all alike, the first one does.
Subscribe(ws, subs) ==
  /\ sockets[ws].state = "open"
  /\ ws \notin Registered
  /\ ~sockets[ws].subscribed
  /\ \A v \in Conns : (v < ws /\ sockets[v].state = "open") => sockets[v].subscribed
  /\ clients' = MapSet(ws, [ws |-> ws, type |-> "dashboard",
                            subscriptions |-> DeclaredSubscriptions(subs)])
  /\ sockets' = [sockets EXCEPT ![ws] =
        [@ EXCEPT !.subscribed = TRUE, !.subscribing = TRUE]]
  /\ UNCHANGED <<inbox, emitted, lastEmit>>

\* lines 184-190: the reads have answered and the snapshot is sent; a read
\* or the send that throws is caught at line 196 and nothing is sent
SendSnapshot(ws, ok) ==
  /\ sockets[ws].subscribing
  /\ sockets' = [sockets EXCEPT ![ws] = [@ EXCEPT !.subscribing = FALSE]]
  /\ inbox' = [inbox EXCEPT ![ws] =
        IF ok /\ sockets[ws].state = "open"
          THEN Deliver(@, [type |-> "dashboard:state", id |-> 0])
          ELSE @]
  /\ UNCHANGED <<clients, emitted, lastEmit>>

\* The peer closes the connection: readyState leaves OPEN before the close
\* handler runs.  The socket is gone, and what it was sent with it; a
\* snapshot still being read for it is sent to nobody.  An agent:register
\* handler that awaits the store goes on.
SocketClose(ws) ==
  /\ sockets[ws].state = "open"
  /\ sockets' = [sockets EXCEPT ![ws] =
        [NoSocket EXCEPT !.state = "closing", !.reg = sockets[ws].reg,
                         !.stat = sockets[ws].stat]]
  /\ inbox' = [inbox EXCEPT ![ws] = <<>>]
  /\ UNCHANGED <<clients, emitted, lastEmit>>

\* handleDisconnect, lines 202-225, of a connection that is no agent: the
\* entry is deleted
HandleDisconnect(ws) ==
  /\ sockets[ws].state = "closing"
  /\ IF ws \in Registered THEN InfoOf(ws).type # "agent" ELSE TRUE
  /\ sockets' = [sockets EXCEPT ![ws] = [@ EXCEPT !.state = "closed"]]
  /\ clients' = MapDelete(ws)
  /\ UNCHANGED <<inbox, emitted, lastEmit>>

\* A route calls mcEvents.emit(kind, payload): the listeners run before emit
\* returns.  lastEmit keeps the event's number, how many listeners its kind
\* has, whether a send of its broadcast threw, how many listeners were
\* called and how emit ended for the caller.
Publish(kind, failing) ==
  /\ emitted < MaxEvents
  /\ failing \subseteq {ws \in Registered : sockets[ws].state = "open"}
  /\ LET msg == [type |-> kind, id |-> emitted + 1]
         run == EmitFrom(1, inbox, msg, failing)
     IN /\ inbox' = run.boxes
        /\ emitted' = emitted + 1
        /\ lastEmit' =
              [id |-> emitted + 1, listeners |-> Len(Listeners(kind)),
               sendThrew |-> failing # {},
               outcome |-> IF run.threw THEN "threw" ELSE "returned",
               invoked |-> run.invoked]
  /\ UNCHANGED <<sockets, clients>>

\* The sends of one broadcast that throw: none, or the send to one connection
FailingChoices == {{}} \cup {{ws} : ws \in Conns}

HubNext ==
  \/ \E ws \in Conns : Connect(ws) /\ UNCHANGED <<cacheVars, pollVars, taskVars, fanVars, lifeVars, projVars, voteVars, commsVars>>
  \/ \E ws \in Conns, subs \in SubscriptionChoices :
        Subscribe(ws, subs) /\ UNCHANGED <<cacheVars, pollVars, taskVars, fanVars, lifeVars, projVars, voteVars, commsVars>>
  \/ \E ws \in Conns, ok \in BOOLEAN :
        SendSnapshot(ws, ok) /\ UNCHANGED <<cacheVars, pollVars, taskVars, fanVars, lifeVars, projVars, voteVars, commsVars>>
  \/ \E ws \in Conns : SocketClose(ws) /\ UNCHANGED <<cacheVars, pollVars, taskVars, fanVars, lifeVars, projVars, voteVars, commsVars>>
  \/ \E ws \in Conns :
        HandleDisconnect(ws) /\ UNCHANGED <<cacheVars, pollVars, taskVars, fanVars, lifeVars, projVars, voteVars, commsVars>>
  \/ \E kind \in EventKinds, failing \in FailingChoices :
        Publish(kind, failing) /\ UNCHANGED <<cacheVars, pollVars, taskVars, fanVars, lifeVars, projVars, voteVars, commsVars>>

(***************************************************************************)
(* Agent connections of the hub: src/unnamed/part_007, agent:register      *)
(* (lines 45-90) and handleDisconnect (lines 202-225)                      *)
(***************************************************************************)

\* payload.agentId of the agent:register messages: the id of the Agent row
WsAgentId == "agent-1"

\* What the hub sends with no event of the bus behind it
Direct(type) == [type |-> type, id |-> 0]

\* lines 47-53: the entry of an agent in the Map
AgentInfo(ws) == [ws |-> ws, type |-> "agent", subscriptions |-> {}]

IsAgentConn(ws) == IF ws \in Registered THEN InfoOf(ws).type = "agent" ELSE FALSE

\* sendToAgent, lines 26-36: the first entry of the Map that is the agent's
\* and whose socket is open is sent the message
SendToAgent(boxes, msg) ==
  LET hits == {i \in DOMAIN clients :
                 clients[i].type = "agent" /\ sockets[clients[i].ws].state = "open"}
  IN IF hits = {} THEN boxes
     ELSE LET first == CHOOSE i \in hits : \A j \in hits : i <= j
          IN [boxes EXCEPT ![clients[first].ws] = Deliver(@, msg)]

\* handleMessage, agent:register, lines 45-62: the connection is put in the
\* Map as an agent and the handler awaits prisma.agent.update.  A connection
\* registers or subscribes, once; of the open connections that have done
\* neither, which are all alike, the first one does.
Register(ws) ==
  /\ sockets[ws].state = "open"
  /\ ws \notin Registered
  /\ ~sockets[ws].subscribed
  /\ sockets[ws].reg = "none"
  /\ \A v \in Conns : (v < ws /\ sockets[v].state = "open") =>
        (sockets[v].subscribed \/ sockets[v].reg # "none")
  /\ clients' = MapSet(ws, AgentInfo(ws))
  /\ sockets' = [sockets EXCEPT ![ws] = [@ EXCEPT !.reg = "update"]]
  /\ UNCHANGED <<inbox, emitted, lastEmit, agents>>

\* lines 75-86: broadcast('agent:connected') and the await of
\* prisma.task.findMany
AnnounceAgent(ws) ==
  /\ inbox' = Broadcast(inbox, Direct("agent:connected"), {}).boxes
  /\ sockets' = [sockets EXCEPT ![ws] = [@ EXCEPT !.reg = "tasks"]]

\* lines 58-63: prisma.agent.update answers; it throws when the row does not
\* exist or the store fails, and the catch awaits prisma.agent.upsert
RegisterUpdate(ws, ok) ==
  /\ sockets[ws].reg = "update"
  /\ IF ok /\ WsAgentId \in DOMAIN agents
       THEN /\ agents' = PutAgent(WsAgentId,
                            [agents[WsAgentId] EXCEPT !.status = "active"])
            /\ AnnounceAgent(ws)
       ELSE /\ sockets' = [sockets EXCEPT ![ws] = [@ EXCEPT !.reg = "upsert"]]
            /\ UNCHANGED <<inbox, agents>>
  /\ UNCHANGED <<clients, emitted, lastEmit>>

\* lines 64-75: prisma.agent.upsert answers; a throw reaches the catch of
\* line 196 and the handler ends
RegisterUpsert(ws, ok) ==
  /\ sockets[ws].reg = "upsert"
  /\ IF ok
       THEN /\ agents' = PutAgent(WsAgentId,
                 IF WsAgentId \in DOMAIN agents
                   THEN [agents[WsAgentId] EXCEPT !.status = "active"]
                   ELSE [status |-> "active", currentTaskId |-> Nil,
                         role |-> "agent"])
            /\ AnnounceAgent(ws)
       ELSE /\ sockets' = [sockets EXCEPT ![ws] = [@ EXCEPT !.reg = "done"]]
            /\ UNCHANGED <<inbox, agents>>
  /\ UNCHANGED <<clients, emitted, lastEmit>>

\* lines 83-88: prisma.task.findMany answers and sendToAgent sends the tasks;
\* a throw reaches the catch of line 196
RegisterTasks(ws, ok) ==
  /\ sockets[ws].reg = "tasks"
  /\ sockets' = [sockets EXCEPT ![ws] = [@ EXCEPT !.reg = "done"]]
  /\ inbox' = IF ok THEN SendToAgent(inbox, Direct("agent:tasks")) ELSE inbox
  /\ UNCHANGED <<clients, emitted, lastEmit, agents>>

\* handleDisconnect, lines 202-211, of a connection whose entry is an
\* agent's: the handler awaits prisma.agent.update
AgentDisconnect(ws) ==
  /\ sockets[ws].state = "closing"
  /\ IsAgentConn(ws)
  /\ sockets' = [sockets EXCEPT ![ws] = [@ EXCEPT !.state = "offlining"]]
  /\ UNCHANGED <<clients, inbox, emitted, lastEmit, agents>>

\* The Agent row after prisma.agent.update({status: 'offline'}), lines
\* 209-215: a throw (the row is missing, the store fails) is ignored
OfflineRow(ok) ==
  IF ok /\ WsAgentId \in DOMAIN agents
    THEN PutAgent(WsAgentId, [agents[WsAgentId] EXCEPT !.status = "offline"])
    ELSE agents

ForgetsNothing(ws) == clients

\* line 224: clients.delete(ws) at the end of handleDisconnect
Forget(ws) == MapDelete(ws)

\* handleDisconnect, lines 209-224: the update has answered or thrown;
\* broadcast('agent:disconnected') goes to the open connections of the Map
\* and the entry is deleted
AgentOffline(ws, ok, failing) ==
  /\ sockets[ws].state = "offlining"
  /\ failing \subseteq {v \in Registered : sockets[v].state = "open"}
  /\ agents' = OfflineRow(ok)
  /\ inbox' = Broadcast(inbox, Direct("agent:disconnected"), failing).boxes
  /\ clients' = Forget(ws)
  /\ sockets' = [sockets EXCEPT ![ws] = [@ EXCEPT !.state = "closed"]]
  /\ UNCHANGED <<emitted, lastEmit>>

\* lines 94-99: {...clients.get(ws), status, currentTaskId, progress}; the
\* spread of undefined adds nothing, so the entry of a connection that was
\* not in the Map has no type and no subscriptions
StatusInfo(ws) ==
  IF ws \in Registered THEN InfoOf(ws)
  ELSE [ws |-> ws, type |-> "undefined", subscriptions |-> {}]

\* handleMessage, agent:status, lines 92-108: clients.set puts the
\* connection in the Map, whatever it has sent before, and the handler
\* awaits prisma.agent.update.  A connection reports its status once.
AgentStatus(ws) ==
  /\ sockets[ws].state = "open"
  /\ sockets[ws].stat = "none"
  /\ clients' = MapSet(ws, StatusInfo(ws))
  /\ sockets' = [sockets EXCEPT ![ws] = [@ EXCEPT !.stat = "update"]]
  /\ UNCHANGED <<inbox, emitted, lastEmit, agents>>

\* lines 102-110: prisma.agent.update answers and
\* broadcast('agent:status:update') goes to the open connections of the Map;
\* a throw (the row is missing, the store fails) reaches the catch of line
\* 196 and the handler ends
AgentStatusUpdate(ws, ok) ==
  /\ sockets[ws].stat = "update"
  /\ sockets' = [sockets EXCEPT ![ws] = [@ EXCEPT !.stat = "done"]]
  /\ IF ok /\ WsAgentId \in DOMAIN agents
       THEN /\ agents' = PutAgent(WsAgentId,
                            [agents[WsAgentId] EXCEPT !.status = "busy"])
            /\ inbox' = Broadcast(inbox, Direct("agent:status:update"), {}).boxes
       ELSE UNCHANGED <<inbox, agents>>
  /\ UNCHANGED <<clients, emitted, lastEmit>>

agentFrame ==
  <<cacheVars, taskVars, fanVars, lifeVars, projVars, voteVars, commsVars, knownSessions,
    polls>>

AgentNext ==
  \/ \E ws \in Conns : Connect(ws) /\ UNCHANGED <<agentFrame, agents>>
  \/ \E ws \in Conns :
        Subscribe(ws, [given |-> FALSE, kinds |-> {}]) /\ UNCHANGED <<agentFrame, agents>>
  \/ \E ws \in Conns, ok \in BOOLEAN :
        SendSnapshot(ws, ok) /\ UNCHANGED <<agentFrame, agents>>
  \/ \E ws \in Conns : Register(ws) /\ UNCHANGED agentFrame
  \/ \E ws \in Conns, ok \in BOOLEAN : RegisterUpdate(ws, ok) /\ UNCHANGED agentFrame
  \/ \E ws \in Conns, ok \in BOOLEAN : RegisterUpsert(ws, ok) /\ UNCHANGED agentFrame
  \/ \E ws \in Conns, ok \in BOOLEAN : RegisterTasks(ws, ok) /\ UNCHANGED agentFrame
  \/ \E ws \in Conns : SocketClose(ws) /\ UNCHANGED <<agentFrame, agents>>
  \/ \E ws \in Conns : HandleDisconnect(ws) /\ UNCHANGED <<agentFrame, agents>>
  \/ \E ws \in Conns : AgentDisconnect(ws) /\ UNCHANGED agentFrame
  \/ \E ws \in Conns, ok \in BOOLEAN, failing \in FailingChoices :
        AgentOffline(ws, ok, failing) /\ UNCHANGED agentFrame

\* The agent connections and their status reports
StatusNext ==
  \/ AgentNext
  \/ \E ws \in Conns : AgentStatus(ws) /\ UNCHANGED agentFrame
  \/ \E ws \in Conns, ok \in BOOLEAN : AgentStatusUpdate(ws, ok) /\ UNCHANGED agentFrame

(***************************************************************************)
(* Notification fanout of the note, message and reply routes:              *)
(* index.js:162-273, 322-443, 479-585                                      *)
(***************************************************************************)

Posts == 1..NumPosts

\* The reply requests to the thread of the first message
Replies == 1..NumReplies

\* Every request of the model
AllPosts == Posts \cup Replies
PostKinds == {"note", "message", "reply"}

\* request.body.author and authorRole
Authors ==
  { [name |-> "Grim", role |-> "human"], [name |-> "ATLAS", role |-> "atlas"],
    [name |-> "Scout", role |-> "agent"] }

\* index.js:21-28
CALLSIGN_TO_AGENT ==
  ("CodeWright" :> "coding-agent") @@ ("Archon" :> "architecture-agent") @@
  ("Scout" :> "research-agent") @@ ("Sentry" :> "devops-agent") @@
  ("Validator" :> "testing-agent") @@ ("ATLAS" :> "main")

\* The assignee of each task of the project the requests address
ProjectTaskAssignees ==
  <<"Scout", "ATLAS", Nil, "CodeWright", "Scout", "Ghost">>

\* [...new Set(list)]: the distinct elements, in the order first met
RECURSIVE Unique(_)
Unique(list) ==
  IF list = <<>> THEN <<>>
  ELSE LET rest == Unique(SubSeq(list, 1, Len(list) - 1))
           last == list[Len(list)]
       IN IF \E i \in DOMAIN rest : rest[i] = last THEN rest
          ELSE Append(rest, last)

getProjectSubAgentsWithDuplicates(excludeCallsign) ==
  SelectSeq(ProjectTaskAssignees,
    LAMBDA a : /\ a # Nil
               /\ a # "ATLAS"
               /\ a # excludeCallsign
               /\ a \in DOMAIN CALLSIGN_TO_AGENT)

\* getProjectSubAgents(projectId, excludeCallsign), lines 38-47
getProjectSubAgents(excludeCallsign) ==
  Unique(SelectSeq(ProjectTaskAssignees,
           LAMBDA a : /\ a # Nil
                      /\ a # "ATLAS"
                      /\ a # excludeCallsign
                      /\ a \in DOMAIN CALLSIGN_TO_AGENT))

\* lines 206, 369, 516: Atlas is notified unless Atlas posted
NotifiesAtlas(author) == author.name # "ATLAS" /\ author.role # "atlas"

IdlePost == [pc |-> "idle"]

\* mcEvents.emit(type, {projectId, note}) / emit(type, {projectId, message}):
\* the event and the record it carries
Event(type, record) == [type |-> type, record |-> record]

\* The message the reply requests address: posted earlier, with no reply yet
FirstMessage == [id |-> 1, author |-> "Grim", replies |-> NULL]

FanInit ==
  /\ notes = <<>>
  /\ messages = <<FirstMessage>>
  /\ posts = [p \in AllPosts |-> IdlePost]
  /\ dispatches = {}
  /\ published = <<>>

\* execFileAsync('openclaw', ['agent', '--agent', agentId, ...]) of request
\* p: a process the handler does not await.  answers = the call has a .then
\* that writes the output back (the dispatch to Atlas); n = which of the
\* calls of the request started it (0 the call for Atlas, i the call of the
\* i-th turn of the loop over the sub-agents); out = what the .then made of
\* the output of the process.
Dispatch(p, agentId, answers, n) ==
  [post |-> p, to |-> agentId, answers |-> answers, state |-> "running",
   n |-> n, out |-> "none"]

\* lines 206-238, 369-405, 516-549
AtlasDispatch(p, author) ==
  IF NotifiesAtlas(author) THEN {Dispatch(p, "main", TRUE, 0)} ELSE {}

\* lines 242-264, 409-434, 553-576: one process per sub-agent of the project
SubAgentDispatches(p, author) ==
  LET subAgents == getProjectSubAgents(author.name)
  IN {Dispatch(p, CALLSIGN_TO_AGENT[subAgents[i]], FALSE, i) :
        i \in DOMAIN subAgents}

\* A request arrives: the handler runs to its first await
PostCall(p, kind, author) ==
  /\ posts[p].pc = "idle"
  /\ \A q \in AllPosts : q < p => posts[q].pc # "idle"
  /\ posts' = [posts EXCEPT ![p] =
        [pc |-> IF kind = "reply" THEN "find" ELSE "create",
         kind |-> kind, author |-> author, rec |-> 0, existing |-> <<>>]]
  /\ UNCHANGED <<notes, messages, dispatches, activities, published>>

\* lines 167-178, 327-338: prisma.note.create / prisma.message.create
\* answers and the handler goes on to the await of prisma.activity.create
PostCreate(p, ok) ==
  /\ posts[p].pc = "create"
  /\ IF ~ok
       THEN /\ posts' = [posts EXCEPT ![p] = [@ EXCEPT !.pc = "failed"]]
            /\ UNCHANGED <<notes, messages>>
       ELSE IF posts[p].kind = "note"
         THEN /\ notes' = Append(notes, [id |-> Len(notes) + 1,
                                         author |-> posts[p].author.name])
              /\ posts' = [posts EXCEPT ![p] =
                    [@ EXCEPT !.pc = "activity", !.rec = Len(notes) + 1]]
              /\ UNCHANGED messages
         ELSE /\ messages' = Append(messages, [id |-> Len(messages) + 1,
                                               author |-> posts[p].author.name,
                                               replies |-> NULL])
              /\ posts' = [posts EXCEPT ![p] =
                    [@ EXCEPT !.pc = "activity", !.rec = Len(messages) + 1]]
              /\ UNCHANGED notes
  /\ UNCHANGED <<dispatches, activities, published>>

\* lines 178-194, 338-354: prisma.activity.create answers, the event is
\* emitted and the handler goes on to the await of prisma.project.findUnique
PostActivity(p, ok) ==
  /\ posts[p].pc = "activity"
  /\ IF ok
       THEN /\ activities' = Append(activities,
                 Activity(posts[p].kind,
                          IF posts[p].kind = "note" THEN "created" ELSE "posted",
                          posts[p].author.name))
            /\ published' = Append(published,
                 IF posts[p].kind = "note"
                   THEN Event("note:new", notes[posts[p].rec])
                   ELSE Event("message:new", messages[posts[p].rec]))
            /\ posts' = [posts EXCEPT ![p] = [@ EXCEPT !.pc = "project"]]
       ELSE /\ posts' = [posts EXCEPT ![p] = [@ EXCEPT !.pc = "failed"]]
            /\ UNCHANGED <<activities, published>>
  /\ UNCHANGED <<notes, messages, dispatches>>

\* lines 484-496: prisma.message.findUnique answers; without the message
\* the request ends with 404; else the reply is pushed to the replies read
\* and the handler goes on to the await of prisma.message.update
PostFind(p, ok) ==
  /\ posts[p].pc = "find"
  /\ posts' = [posts EXCEPT ![p] =
        IF ~ok THEN [@ EXCEPT !.pc = "failed"]
        ELSE IF messages = <<>> THEN [@ EXCEPT !.pc = "notFound"]
        ELSE [@ EXCEPT !.pc = "update", !.rec = 1,
                !.existing =
                   Append(IF messages[1].replies = NULL THEN <<>>
                          ELSE Parse(messages[1].replies),
                          [author |-> posts[p].author.name, post |-> p])]]
  /\ UNCHANGED <<notes, messages, dispatches, activities, published>>

\* PostUpdate with the emit ahead of the await of prisma.message.update
PostUpdateEmitsFirst(p, ok) ==
  /\ posts[p].pc = "update"
  /\ published' = Append(published,
        Event("message:new",
              [messages[posts[p].rec] EXCEPT
                 !.replies = Stringify(posts[p].existing)]))
  /\ IF ok
       THEN /\ messages' = [messages EXCEPT ![posts[p].rec] =
                 [@ EXCEPT !.replies = Stringify(posts[p].existing)]]
            /\ posts' = [posts EXCEPT ![p] = [@ EXCEPT !.pc = "project"]]
       ELSE /\ posts' = [posts EXCEPT ![p] = [@ EXCEPT !.pc = "failed"]]
            /\ UNCHANGED messages
  /\ UNCHANGED <<notes, dispatches, activities>>

\* lines 496-508: prisma.message.update answers, the event is emitted and
\* the handler goes on to the await of prisma.project.findUnique
PostUpdate(p, ok) ==
  /\ posts[p].pc = "update"
  /\ IF ok
       THEN /\ messages' = [messages EXCEPT ![posts[p].rec] =
                 [@ EXCEPT !.replies = Stringify(posts[p].existing)]]
            /\ published' = Append(published,
                 Event("message:new", messages'[posts[p].rec]))
            /\ posts' = [posts EXCEPT ![p] = [@ EXCEPT !.pc = "project"]]
       ELSE /\ posts' = [posts EXCEPT ![p] = [@ EXCEPT !.pc = "failed"]]
            /\ UNCHANGED <<messages, published>>
  /\ UNCHANGED <<notes, dispatches, activities>>

\* lines 191-200, 351-360, 505-516: the project is read.  The note and
\* message routes go on to the await of the recent notes or messages; the
\* reply route starts the dispatch to Atlas and goes on to the await in
\* getProjectSubAgents.
PostProject(p, ok) ==
  /\ posts[p].pc = "project"
  /\ IF ~ok
       THEN /\ posts' = [posts EXCEPT ![p] = [@ EXCEPT !.pc = "failed"]]
            /\ UNCHANGED dispatches
       ELSE IF posts[p].kind = "reply"
         THEN /\ dispatches' = dispatches \cup AtlasDispatch(p, posts[p].author)
              /\ posts' = [posts EXCEPT ![p] = [@ EXCEPT !.pc = "subAgents"]]
         ELSE /\ posts' = [posts EXCEPT ![p] = [@ EXCEPT !.pc = "recent"]]
              /\ UNCHANGED dispatches
  /\ UNCHANGED <<notes, messages, activities, published>>

\* lines 196-241, 356-408: the recent notes or messages are read, the
\* dispatch to Atlas is started and the handler goes on to the await in
\* getProjectSubAgents
PostRecent(p, ok) ==
  /\ posts[p].pc = "recent"
  /\ IF ok
       THEN /\ dispatches' = dispatches \cup AtlasDispatch(p, posts[p].author)
            /\ posts' = [posts EXCEPT ![p] = [@ EXCEPT !.pc = "subAgents"]]
       ELSE /\ posts' = [posts EXCEPT ![p] = [@ EXCEPT !.pc = "failed"]]
            /\ UNCHANGED dispatches
  /\ UNCHANGED <<notes, messages, activities, published>>

\* lines 241-268, 408-438, 552-580: getProjectSubAgents answers, a dispatch
\* is started for every sub-agent and the record is returned
PostSubAgents(p, ok) ==
  /\ posts[p].pc = "subAgents"
  /\ IF ok
       THEN /\ dispatches' =
                 dispatches \cup SubAgentDispatches(p, posts[p].author)
            /\ posts' = [posts EXCEPT ![p] = [@ EXCEPT !.pc = "returned"]]
       ELSE /\ posts' = [posts EXCEPT ![p] = [@ EXCEPT !.pc = "failed"]]
            /\ UNCHANGED dispatches
  /\ UNCHANGED <<notes, messages, activities, published>>

DispatchErrorFailsRequest(p) ==
  [posts EXCEPT ![p] = [@ EXCEPT !.pc = "failed"]]

\* lines 237, 263, 404, 433, 548, 575: .catch(err => console.error(...)):
\* what the requests are after the error of a dispatch of request p
OnDispatchError(p) == posts

\* The process of dispatch d exits with an error or is killed at its
\* timeout: the promise rejects and the catch logs it
DispatchFail(d) ==
  /\ d \in dispatches
  /\ d.state = "running"
  /\ dispatches' = (dispatches \ {d}) \cup {[d EXCEPT !.state = "failed"]}
  /\ posts' = OnDispatchError(d.post)
  /\ UNCHANGED <<notes, messages, activities, published>>

WritesBackAnyOutput(d, blank) == ~blank

\* lines 221-223, 385-387, 528-530: only the call for Atlas has a .then, and
\* it returns at once when the trimmed output is empty
WritesBack(d, blank) == d.answers /\ ~blank

\* The process of dispatch d exits normally.  The output of a sub-agent is
\* dropped; that of Atlas, if not blank, is written back: the .then goes on
\* to the await of prisma.note.create or prisma.message.update (lines
\* 222-232, 385-399, 531-543).
DispatchExit(d, blank) ==
  /\ d \in dispatches
  /\ d.state = "running"
  /\ dispatches' = (dispatches \ {d}) \cup
        {[d EXCEPT !.state = IF WritesBack(d, blank) THEN "writing" ELSE "done",
                   !.out = IF ~d.answers THEN "ignored"
                           ELSE IF blank THEN "blank" ELSE "text"]}
  /\ UNCHANGED <<notes, messages, posts, activities, published>>

\* The replies the write-back of Atlas stores: for a message those of the
\* message object the route created (line 389), for a reply those the route
\* read and pushed to (line 534), with the answer of Atlas appended
AtlasReplies(p) ==
  Append(posts[p].existing, [author |-> "ATLAS", post |-> p])

\* lines 225-236, 397-403, 541-547: the write-back answers and its .then
\* emits the event with the record written; a throw is caught and logged
AtlasWriteBack(d, ok) ==
  /\ d \in dispatches
  /\ d.state = "writing"
  /\ dispatches' = (dispatches \ {d}) \cup
        {[d EXCEPT !.state = IF ok THEN "written" ELSE "failed"]}
  /\ IF ~ok THEN UNCHANGED <<notes, messages, published>>
     ELSE IF posts[d.post].kind = "note"
       THEN /\ notes' = Append(notes, [id |-> Len(notes) + 1, author |-> "ATLAS"])
            /\ published' = Append(published,
                  Event("note:new", notes'[Len(notes')]))
            /\ UNCHANGED messages
       ELSE /\ messages' = [messages EXCEPT ![posts[d.post].rec] =
                 [@ EXCEPT !.replies = Stringify(AtlasReplies(d.post))]]
            /\ published' = Append(published,
                  Event("message:new", messages'[posts[d.post].rec]))
            /\ UNCHANGED notes
  /\ UNCHANGED <<posts, activities>>

fanFrame ==
  <<cacheVars, pollVars, hubVars, lifeVars, projVars, voteVars, commsVars, task, assignments,
    reporters, assigners>>

FanNext ==
  \/ \E p \in Posts, kind \in PostKinds, author \in Authors :
        PostCall(p, kind, author) /\ UNCHANGED fanFrame
  \/ \E p \in Posts, ok \in BOOLEAN : PostCreate(p, ok) /\ UNCHANGED fanFrame
  \/ \E p \in Posts, ok \in BOOLEAN : PostActivity(p, ok) /\ UNCHANGED fanFrame
  \/ \E p \in Posts, ok \in BOOLEAN : PostFind(p, ok) /\ UNCHANGED fanFrame
  \/ \E p \in Posts, ok \in BOOLEAN : PostUpdate(p, ok) /\ UNCHANGED fanFrame
  \/ \E p \in Posts, ok \in BOOLEAN : PostProject(p, ok) /\ UNCHANGED fanFrame
  \/ \E p \in Posts, ok \in BOOLEAN : PostRecent(p, ok) /\ UNCHANGED fanFrame
  \/ \E p \in Posts, ok \in BOOLEAN : PostSubAgents(p, ok) /\ UNCHANGED fanFrame
  \/ \E d \in dispatches : DispatchFail(d) /\ UNCHANGED fanFrame
  \/ \E d \in dispatches, blank \in BOOLEAN :
        DispatchExit(d, blank) /\ UNCHANGED fanFrame
  \/ \E d \in dispatches, ok \in BOOLEAN :
        AtlasWriteBack(d, ok) /\ UNCHANGED fanFrame

\* The requests to one thread: reply requests only, of any author
ThreadNext ==
  \/ \E p \in Replies, author \in Authors :
        PostCall(p, "reply", author) /\ UNCHANGED fanFrame
  \/ \E p \in Replies, ok \in BOOLEAN : PostFind(p, ok) /\ UNCHANGED fanFrame
  \/ \E p \in Replies, ok \in BOOLEAN : PostUpdate(p, ok) /\ UNCHANGED fanFrame
  \/ \E p \in Replies, ok \in BOOLEAN : PostProject(p, ok) /\ UNCHANGED fanFrame
  \/ \E p \in Replies, ok \in BOOLEAN : PostSubAgents(p, ok) /\ UNCHANGED fanFrame
  \/ \E d \in dispatches : DispatchFail(d) /\ UNCHANGED fanFrame
  \/ \E d \in dispatches, blank \in BOOLEAN :
        DispatchExit(d, blank) /\ UNCHANGED fanFrame
  \/ \E d \in dispatches, ok \in BOOLEAN :
        AtlasWriteBack(d, ok) /\ UNCHANGED fanFrame

(***************************************************************************)
(* Task life cycle: POST /api/tasks/:taskId/report, /verify and /reopen    *)
(* (index.js:739-829, 1070-1116) and the realtime messages agent:progress  *)
(* and agent:complete (websocket module, lines 112-158)                    *)
(***************************************************************************)

LifeReqs == 1..NumLifeReqs

\* request.body.agentName of a report, a verify or a reopen: a callsign, or
\* none
Callsigns == {"Scout", "ATLAS"}
AgentInputs == Callsigns \cup {Nil}

\* request.body.status of a report, or none
StatusInputs == {"in_progress", "done", Nil}

\* request.body.progress of a report: a number, or undefined
NoProgress == [given |-> FALSE, value |-> 0]
GivenProgress(n) == [given |-> TRUE, value |-> n]
ProgressInputs == {NoProgress} \cup {GivenProgress(n) : n \in ProgressValues}

\* request.body.message of a reopen: the reason, or none
ReasonInputs == {"rework", Nil}

\* new Date()
DateNow == "Date"

\* The requests and messages whose handler has started and not yet ended
OpenLife == {q \in LifeReqs : lifeReqs[q].pc \notin {"idle", "returned", "failed"}}

\* A request or a message arrives: in the order of the indices, and while
\* fewer than MaxOpenLife are being handled
Arrives(q) ==
  /\ lifeReqs[q].pc = "idle"
  /\ \A b \in LifeReqs : b < q => lifeReqs[b].pc # "idle"
  /\ Cardinality(OpenLife) < MaxOpenLife

LifeInit ==
  /\ lifeReqs = [q \in LifeReqs |-> IdleRequest]
  /\ verifyDispatches = <<>>

\* ReportStatus with the progress taking precedence over the status
ReportStatusProgressFirst(taskStatus, status, progress) ==
  IF progress.given /\ progress.value >= 100 THEN "done"
  ELSE IF progress.given /\ progress.value > 0 THEN "in_progress"
  ELSE IF status # Nil THEN status
  ELSE taskStatus

\* index.js:751-757: the status a report gives a task whose status it read
ReportStatus(taskStatus, status, progress) ==
  IF status # Nil THEN status
  ELSE IF ~progress.given THEN taskStatus
  ELSE IF progress.value >= 100 THEN "done"
  ELSE IF progress.value > 0 THEN "in_progress"
  ELSE taskStatus

\* ReportUpdateData with the reporting agent always written as assignee
ReportUpdateDataAlwaysClaims(read, agentName, status, progress) ==
  [status |-> ReportStatus(read.status, status, progress),
   progress |-> progress,
   claims |-> agentName # Nil,
   completes |-> ReportStatus(read.status, status, progress) = "done"]

\* lines 759-764: updateData, built from the task the handler read
ReportUpdateData(read, agentName, status, progress) ==
  [status |-> ReportStatus(read.status, status, progress),
   progress |-> progress,
   claims |-> agentName # Nil /\ read.assignee = Nil,
   completes |-> ReportStatus(read.status, status, progress) = "done"]

\* prisma.task.update({ data: updateData }) on the row t: the fields in
\* updateData are written, the others kept
ApplyReport(t, data, agentName) ==
  [t EXCEPT !.status = data.status,
            !.progress = IF data.progress.given THEN data.progress.value ELSE @,
            !.assignee = IF data.claims THEN agentName ELSE @,
            !.completedAt = IF data.completes THEN DateNow ELSE @]

\* POST /api/tasks/:taskId/report, lines 739-766: the request arrives and
\* the handler awaits prisma.task.findUnique; with its answer (the model's
\* task exists, so the 404 of line 746 does not arise) it builds updateData
\* and goes on to the await of prisma.task.update.  The segment before the
\* read changes nothing, so it is taken together with the answer.
ReportRead(q, agentName, status, progress, ok) ==
  /\ Arrives(q)
  /\ lifeReqs' = [lifeReqs EXCEPT ![q] =
        IF ok
          THEN [pc |-> "write", kind |-> "report", agentName |-> agentName,
                read |-> [status |-> task.status, assignee |-> task.assignee],
                status |-> status, progress |-> progress,
                data |-> ReportUpdateData(task, agentName, status, progress)]
          ELSE [pc |-> "failed"]]
  /\ UNCHANGED <<task, activities, verifyDispatches, published>>

\* lines 766-776: the task row is updated and the handler goes on to the
\* await of prisma.activity.create
ReportWrite(q, ok) ==
  /\ lifeReqs[q].pc = "write"
  /\ lifeReqs[q].kind = "report"
  /\ IF ok
       THEN /\ task' = ApplyReport(task, lifeReqs[q].data, lifeReqs[q].agentName)
            /\ lifeReqs' = [lifeReqs EXCEPT ![q] =
                 [pc |-> "activity", kind |-> "report",
                  agentName |-> lifeReqs[q].agentName,
                  newStatus |-> lifeReqs[q].data.status]]
       ELSE /\ lifeReqs' = [lifeReqs EXCEPT ![q] =
                 [pc |-> "failed"]]
            /\ UNCHANGED task
  /\ UNCHANGED <<activities, verifyDispatches, published>>

\* AsksVerification without the exception for Atlas
AsksVerificationOfAnyone(newStatus, agentName) ==
  newStatus = "done" /\ agentName # Nil

\* line 796: the report asks Atlas to verify the task
AsksVerification(newStatus, agentName) ==
  newStatus = "done" /\ agentName # Nil /\ agentName # "ATLAS"

\* lines 776-797, 823: the activity is created and the event emitted; the
\* handler returns, or goes on to the await of the second
\* prisma.task.findUnique
ReportActivity(q, ok) ==
  /\ lifeReqs[q].pc = "activity"
  /\ lifeReqs[q].kind = "report"
  /\ IF ok
       THEN /\ published' = Append(published, Event("task:updated", "task"))
            /\ activities' = Append(activities,
                 Activity("task",
                          IF lifeReqs[q].newStatus = "done" THEN "completed"
                          ELSE "progress",
                          Nil))
            /\ lifeReqs' = [lifeReqs EXCEPT ![q] =
                 IF AsksVerification(lifeReqs[q].newStatus,
                                     lifeReqs[q].agentName)
                   THEN [pc |-> "verification", kind |-> "report",
                         agentName |-> lifeReqs[q].agentName]
                   ELSE [pc |-> "returned"]]
       ELSE /\ lifeReqs' = [lifeReqs EXCEPT ![q] =
                 [pc |-> "failed"]]
            /\ UNCHANGED <<activities, published>>
  /\ UNCHANGED <<task, verifyDispatches>>

\* lines 815-818: execAsync('openclaw agent --agent main --channel telegram
\* ...'), a process the handler does not await; its message names the agent
\* that completed the task
VerificationDispatch(agentName) ==
  [to |-> "main", completedBy |-> agentName]

\* lines 797-823: the task is read with its project, the process that asks
\* Atlas to verify is started and the handler returns
ReportVerification(q, ok) ==
  /\ lifeReqs[q].pc = "verification"
  /\ IF ok
       THEN /\ verifyDispatches' =
                 Append(verifyDispatches,
                        VerificationDispatch(lifeReqs[q].agentName))
            /\ lifeReqs' = [lifeReqs EXCEPT ![q] = [pc |-> "returned"]]
       ELSE /\ lifeReqs' = [lifeReqs EXCEPT ![q] =
                 [pc |-> "failed"]]
            /\ UNCHANGED verifyDispatches
  /\ UNCHANGED <<task, activities, published>>

\* POST /api/tasks/:taskId/verify, lines 1070-1074, and
\* POST /api/tasks/:taskId/reopen, lines 1094-1098: the handler runs to the
\* await of prisma.task.update
ReviewCall(q, kind, agentName, reason) ==
  /\ Arrives(q)
  /\ lifeReqs' = [lifeReqs EXCEPT ![q] =
        [pc |-> "update", kind |-> kind, agentName |-> agentName,
         reason |-> reason]]
  /\ UNCHANGED <<task, activities, verifyDispatches, published>>

\* line 1076: the data of the update of verify
Verified(t, agentName) ==
  [t EXCEPT !.verified = TRUE,
            !.verifiedBy = IF agentName # Nil THEN agentName ELSE "ATLAS",
            !.verifiedAt = DateNow]

\* Reopened with the progress kept
ReopenedKeepsProgress(t) ==
  [t EXCEPT !.status = "in_progress", !.verified = FALSE,
            !.verifiedBy = Nil, !.verifiedAt = Nil, !.completedAt = Nil]

\* line 1100: the data of the update of reopen
Reopened(t) ==
  [t EXCEPT !.status = "in_progress", !.verified = FALSE,
            !.verifiedBy = Nil, !.verifiedAt = Nil, !.completedAt = Nil,
            !.progress = 0]

\* lines 1074-1078: the task row is updated and the handler goes on to the
\* await of prisma.activity.create
VerifyUpdate(q, ok) ==
  /\ lifeReqs[q].pc = "update"
  /\ lifeReqs[q].kind = "verify"
  /\ IF ok
       THEN /\ task' = Verified(task, lifeReqs[q].agentName)
            /\ lifeReqs' = [lifeReqs EXCEPT ![q] = [@ EXCEPT !.pc = "activity"]]
       ELSE /\ lifeReqs' = [lifeReqs EXCEPT ![q] =
                 [pc |-> "failed"]]
            /\ UNCHANGED task
  /\ UNCHANGED <<activities, verifyDispatches, published>>

\* lines 1098-1102
ReopenUpdate(q, ok) ==
  /\ lifeReqs[q].pc = "update"
  /\ lifeReqs[q].kind = "reopen"
  /\ IF ok
       THEN /\ task' = Reopened(task)
            /\ lifeReqs' = [lifeReqs EXCEPT ![q] = [@ EXCEPT !.pc = "activity"]]
       ELSE /\ lifeReqs' = [lifeReqs EXCEPT ![q] =
                 [pc |-> "failed"]]
            /\ UNCHANGED task
  /\ UNCHANGED <<activities, verifyDispatches, published>>

\* lines 1078-1087, 1102-1111: the activity is created, the event emitted
\* and the task returned
ReviewActivity(q, ok) ==
  /\ lifeReqs[q].pc = "activity"
  /\ lifeReqs[q].kind \in {"verify", "reopen"}
  /\ IF ok
       THEN /\ published' = Append(published, Event("task:updated", "task"))
            /\ activities' = Append(activities,
                 Activity("task",
                          IF lifeReqs[q].kind = "verify" THEN "verified"
                          ELSE "reopened",
                          lifeReqs[q].reason))
            /\ lifeReqs' = [lifeReqs EXCEPT ![q] =
                 [pc |-> "returned"]]
       ELSE /\ lifeReqs' = [lifeReqs EXCEPT ![q] =
                 [pc |-> "failed"]]
            /\ UNCHANGED <<activities, published>>
  /\ UNCHANGED <<task, verifyDispatches>>

\* websocket module, lines 119-124: the status agent:progress gives
AgentProgressStatus(taskStatus, progress) ==
  IF progress >= 100 THEN "done"
  ELSE IF progress > 0 THEN "in_progress"
  ELSE taskStatus

\* websocket module, lines 112-126 and 146-156: an agent:progress or an
\* agent:complete message arrives and handleMessage awaits
\* prisma.task.findUnique; with its answer it goes on to the await of
\* prisma.task.update.  The segment before the read changes nothing, so it
\* is taken together with the answer.
AgentRead(q, kind, progress, ok) ==
  /\ Arrives(q)
  /\ lifeReqs' = [lifeReqs EXCEPT ![q] =
        IF ~ok THEN [pc |-> "failed"]
        ELSE IF kind = "agent:progress"
          THEN [pc |-> "write", kind |-> "agent:progress",
                progress |-> progress,
                newStatus |-> AgentProgressStatus(task.status, progress)]
          ELSE [pc |-> "write", kind |-> "agent:complete",
                progress |-> 100, newStatus |-> "done"]]
  /\ UNCHANGED <<task, activities, verifyDispatches, published>>

\* websocket module, lines 126-132 and 156-162: the task row is updated and
\* handleMessage goes on to the await of prisma.activity.create
AgentWrite(q, ok) ==
  /\ lifeReqs[q].pc = "write"
  /\ lifeReqs[q].kind \in {"agent:progress", "agent:complete"}
  /\ IF ok
       THEN /\ task' =
                 [task EXCEPT !.status = lifeReqs[q].newStatus,
                              !.progress = lifeReqs[q].progress,
                              !.completedAt =
                                 IF lifeReqs[q].kind = "agent:complete"
                                   THEN DateNow ELSE @]
            /\ lifeReqs' = [lifeReqs EXCEPT ![q] =
                 [pc |-> "activity", kind |-> lifeReqs[q].kind]]
       ELSE /\ lifeReqs' = [lifeReqs EXCEPT ![q] =
                 [pc |-> "failed"]]
            /\ UNCHANGED task
  /\ UNCHANGED <<activities, verifyDispatches, published>>

\* websocket module, lines 132-143 and 162-173: the activity is created and
\* the message broadcast
AgentActivity(q, ok) ==
  /\ lifeReqs[q].pc = "activity"
  /\ lifeReqs[q].kind \in {"agent:progress", "agent:complete"}
  /\ IF ok
       THEN /\ activities' = Append(activities,
                 Activity("task",
                          IF lifeReqs[q].kind = "agent:complete"
                            THEN "completed" ELSE "progress",
                          Nil))
            /\ lifeReqs' = [lifeReqs EXCEPT ![q] =
                 [pc |-> "returned"]]
       ELSE /\ lifeReqs' = [lifeReqs EXCEPT ![q] =
                 [pc |-> "failed"]]
            /\ UNCHANGED activities
  /\ UNCHANGED <<task, verifyDispatches, published>>

lifeFrame ==
  <<cacheVars, pollVars, hubVars, projVars, voteVars, commsVars, notes, messages, posts, dispatches,
    assignments, reporters, assigners>>

LifeNext ==
  \/ \E q \in LifeReqs, n \in AgentInputs, s \in StatusInputs,
        p \in ProgressInputs, ok \in BOOLEAN :
        ReportRead(q, n, s, p, ok) /\ UNCHANGED lifeFrame
  \/ \E q \in LifeReqs, ok \in BOOLEAN : ReportWrite(q, ok) /\ UNCHANGED lifeFrame
  \/ \E q \in LifeReqs, ok \in BOOLEAN :
        ReportActivity(q, ok) /\ UNCHANGED lifeFrame
  \/ \E q \in LifeReqs, ok \in BOOLEAN :
        ReportVerification(q, ok) /\ UNCHANGED lifeFrame
  \/ \E q \in LifeReqs, n \in AgentInputs :
        ReviewCall(q, "verify", n, Nil) /\ UNCHANGED lifeFrame
  \/ \E q \in LifeReqs, n \in AgentInputs, reason \in ReasonInputs :
        ReviewCall(q, "reopen", n, reason) /\ UNCHANGED lifeFrame
  \/ \E q \in LifeReqs, ok \in BOOLEAN : VerifyUpdate(q, ok) /\ UNCHANGED lifeFrame
  \/ \E q \in LifeReqs, ok \in BOOLEAN : ReopenUpdate(q, ok) /\ UNCHANGED lifeFrame
  \/ \E q \in LifeReqs, ok \in BOOLEAN :
        ReviewActivity(q, ok) /\ UNCHANGED lifeFrame
  \/ \E q \in LifeReqs, p \in ProgressValues, ok \in BOOLEAN :
        AgentRead(q, "agent:progress", p, ok) /\ UNCHANGED lifeFrame
  \/ \E q \in LifeReqs, ok \in BOOLEAN :
        AgentRead(q, "agent:complete", 100, ok) /\ UNCHANGED lifeFrame
  \/ \E q \in LifeReqs, ok \in BOOLEAN : AgentWrite(q, ok) /\ UNCHANGED lifeFrame
  \/ \E q \in LifeReqs, ok \in BOOLEAN : AgentActivity(q, ok) /\ UNCHANGED lifeFrame

(***************************************************************************)
(* Project progress: PUT and DELETE /api/tasks/:taskId                     *)
(* (routes/tasks.js:102-227) and PUT /api/projects/:projectId (projects    *)
(* routes, lines 98-146)                                                   *)
(***************************************************************************)

Edits == 1..NumEdits

\* The other tasks of the project at start-up
InitialOthers == <<[id |-> 1, status |-> "done"]>>

\* The ids of the Task rows: 0 is the row `task`
OtherIds == {InitialOthers[i].id : i \in DOMAIN InitialOthers}
TaskIds == {0} \cup OtherIds

\* request.body.status of PUT /tasks/:taskId (Nil: not given) and of
\* PUT /projects/:projectId
PutStatusInputs == {Nil, "pending", "done", "completed"}
HoldStatusInputs == {"blocked", "on_hold"}

\* prisma.task.findMany({ where: { projectId } }): the status of each row
TasksOfProject ==
  (IF listed THEN <<task.status>> ELSE <<>>)
    \o [i \in DOMAIN others |-> others[i].status]

\* prisma.task.findUnique({ where: { id } }): the status of the row, or Nil
\* for null
FindTask(id) ==
  IF id = 0 THEN (IF listed THEN task.status ELSE Nil)
  ELSE IF \E i \in DOMAIN others : others[i].id = id
    THEN others[CHOOSE i \in DOMAIN others : others[i].id = id].status
    ELSE Nil

\* Math.round(100 * n / d) for n >= 0 and d > 0: halves go up
RoundPercent(n, d) == (200 * n + d) \div (2 * d)

\* tasks.filter(t => statuses.includes(t.status)).length
CountIn(tasks, statuses) ==
  Cardinality({i \in DOMAIN tasks : tasks[i] \in statuses})

\* routes/tasks.js:153: what the update route counts as done, and
\* routes/tasks.js:209: what the delete route counts
PutDoneStatuses == {"done", "completed"}
DeleteDoneStatuses == {"done"}

AutoStatusIgnoresHold(projectStatus, tasks) ==
  IF CountIn(tasks, PutDoneStatuses) = 0 THEN "not_started"
  ELSE IF CountIn(tasks, PutDoneStatuses) = Len(tasks) THEN "completed"
  ELSE "in_progress"

\* routes/tasks.js:158-171: the status derived for the project, or Nil for
\* null when the status read is blocked or on_hold
AutoStatus(projectStatus, tasks) ==
  IF projectStatus \in {"blocked", "on_hold"} THEN Nil
  ELSE IF CountIn(tasks, PutDoneStatuses) = 0 THEN "not_started"
  ELSE IF CountIn(tasks, PutDoneStatuses) = Len(tasks) THEN "completed"
  ELSE "in_progress"

IdleEdit == [pc |-> "idle"]

ProjInit ==
  /\ project = [progress |-> 50, status |-> "in_progress"]
  /\ others = InitialOthers
  /\ listed = TRUE
  /\ edits = [e \in Edits |-> IdleEdit]

\* The requests whose handler has started and not yet ended
OpenEdits ==
  {e \in Edits : edits[e].pc \notin {"idle", "returned", "failed", "notFound"}}

\* A request arrives: in the order of the indices, and while fewer than
\* MaxOpenEdits are being handled
EditArrives(e) ==
  /\ edits[e].pc = "idle"
  /\ \A b \in Edits : b < e => edits[b].pc # "idle"
  /\ Cardinality(OpenEdits) < MaxOpenEdits

\* routes/tasks.js:102-121: PUT /tasks/:taskId arrives and
\* prisma.task.findUnique answers; the handler goes on to the await of
\* prisma.task.update
PutFind(e, id, status, ok) ==
  /\ EditArrives(e)
  /\ edits' = [edits EXCEPT ![e] =
        IF ok THEN [pc |-> "update", kind |-> "put", id |-> id,
                    status |-> status, read |-> FindTask(id),
                    tasks |-> <<>>, projectStatus |-> Nil]
        ELSE [pc |-> "failed"]]
  /\ UNCHANGED <<project, others, listed, activities>>

\* routes/tasks.js:123-138, 179: prisma.task.update answers (it throws when
\* the row is gone); a status given is written; the handler returns the
\* task unless the status is given and differs from the one read (line
\* 141), and then goes on to the await of prisma.activity.create
PutUpdate(e, ok) ==
  /\ edits[e].pc = "update"
  /\ edits[e].kind = "put"
  /\ LET r == edits[e]
         found == \E i \in DOMAIN others : others[i].id = r.id
     IN IF ~ok \/ ~found
          THEN /\ edits' = [edits EXCEPT ![e] = [pc |-> "failed"]]
               /\ UNCHANGED others
          ELSE /\ others' = [i \in DOMAIN others |->
                    IF others[i].id = r.id /\ r.status # Nil
                      THEN [others[i] EXCEPT !.status = r.status]
                      ELSE others[i]]
               /\ edits' = [edits EXCEPT ![e] =
                    IF r.status # Nil /\ r.status # r.read
                      THEN [r EXCEPT !.pc = "activity"]
                      ELSE [pc |-> "returned"]]
  /\ UNCHANGED <<project, listed, activities>>

\* routes/tasks.js:142-152: the activity is created and the handler goes on
\* to the await of prisma.task.findMany
PutActivity(e, ok) ==
  /\ edits[e].pc = "activity"
  /\ edits[e].kind = "put"
  /\ IF ok
       THEN /\ activities' = Append(activities,
                 Activity("task", edits[e].status, edits[e].id))
            /\ edits' = [edits EXCEPT ![e] = [@ EXCEPT !.pc = "tasks"]]
       ELSE /\ edits' = [edits EXCEPT ![e] = [pc |-> "failed"]]
            /\ UNCHANGED activities
  /\ UNCHANGED <<project, others, listed>>

\* routes/tasks.js:150-159, 206: prisma.task.findMany answers with the
\* tasks of the project
EditTasks(e, ok) ==
  /\ edits[e].pc = "tasks"
  /\ edits' = [edits EXCEPT ![e] =
        IF ok THEN [@ EXCEPT !.pc = IF edits[e].kind = "put" THEN "project"
                                    ELSE "write",
                             !.tasks = TasksOfProject]
        ELSE [pc |-> "failed"]]
  /\ UNCHANGED <<project, others, listed, activities>>

\* routes/tasks.js:158-173: prisma.project.findUnique answers with the
\* project
PutProject(e, ok) ==
  /\ edits[e].pc = "project"
  /\ edits' = [edits EXCEPT ![e] =
        IF ok THEN [@ EXCEPT !.pc = "write", !.projectStatus = project.status]
        ELSE [pc |-> "failed"]]
  /\ UNCHANGED <<project, others, listed, activities>>

\* routes/tasks.js:154, 173-179: prisma.project.update answers: the
\* progress, and the status when one was derived, are written.  With no
\* task read the progress is Math.round(0 / 0 * 100), NaN, which the store
\* rejects for the integer column: the update throws.
PutProjectWrite(e, ok) ==
  /\ edits[e].pc = "write"
  /\ edits[e].kind = "put"
  /\ LET r == edits[e]
         autoStatus == AutoStatus(r.projectStatus, r.tasks)
     IN IF ok /\ r.tasks # <<>>
          THEN /\ project' =
                    [progress |-> RoundPercent(CountIn(r.tasks, PutDoneStatuses),
                                               Len(r.tasks)),
                     status |-> IF autoStatus # Nil THEN autoStatus
                                ELSE project.status]
               /\ edits' = [edits EXCEPT ![e] = [pc |-> "returned"]]
          ELSE /\ edits' = [edits EXCEPT ![e] = [pc |-> "failed"]]
               /\ UNCHANGED project
  /\ UNCHANGED <<others, listed, activities>>

\* routes/tasks.js:187-204: DELETE /tasks/:taskId arrives and
\* prisma.task.findUnique answers: 404 without the task, else the handler
\* goes on to the await of prisma.task.delete
DeleteFind(e, id, ok) ==
  /\ EditArrives(e)
  /\ edits' = [edits EXCEPT ![e] =
        IF ~ok THEN [pc |-> "failed"]
        ELSE IF FindTask(id) = Nil THEN [pc |-> "notFound"]
        ELSE [pc |-> "delete", kind |-> "delete", id |-> id, tasks |-> <<>>]]
  /\ UNCHANGED <<project, others, listed, activities>>

\* routes/tasks.js:202-206: prisma.task.delete answers (it throws when the
\* row is gone) and the handler goes on to the await of prisma.task.findMany
DeleteRow(e, ok) ==
  /\ edits[e].pc = "delete"
  /\ IF ok /\ FindTask(edits[e].id) # Nil
       THEN /\ listed' = (listed /\ edits[e].id # 0)
            /\ others' = SelectSeq(others, LAMBDA t : t.id # edits[e].id)
            /\ edits' = [edits EXCEPT ![e] = [@ EXCEPT !.pc = "tasks"]]
       ELSE /\ edits' = [edits EXCEPT ![e] = [pc |-> "failed"]]
            /\ UNCHANGED <<others, listed>>
  /\ UNCHANGED <<project, activities>>

\* routes/tasks.js:207-223: prisma.project.update answers: the progress is
\* written, 0 when no task is left; the status is not
DeleteWrite(e, ok) ==
  /\ edits[e].pc = "write"
  /\ edits[e].kind = "delete"
  /\ IF ok
       THEN /\ project' = [project EXCEPT !.progress =
                 IF Len(edits[e].tasks) > 0
                   THEN RoundPercent(CountIn(edits[e].tasks, DeleteDoneStatuses),
                                     Len(edits[e].tasks))
                   ELSE 0]
            /\ edits' = [edits EXCEPT ![e] = [pc |-> "returned"]]
       ELSE /\ edits' = [edits EXCEPT ![e] = [pc |-> "failed"]]
            /\ UNCHANGED project
  /\ UNCHANGED <<others, listed, activities>>

\* projects routes, lines 98-130: PUT /projects/:projectId with a status
\* arrives and prisma.project.update answers; the handler goes on to the
\* await of prisma.activity.create
HoldUpdate(e, status, ok) ==
  /\ EditArrives(e)
  /\ IF ok
       THEN /\ project' = [project EXCEPT !.status = status]
            /\ edits' = [edits EXCEPT ![e] = [pc |-> "holdActivity", kind |-> "hold"]]
       ELSE /\ edits' = [edits EXCEPT ![e] = [pc |-> "failed"]]
            /\ UNCHANGED project
  /\ UNCHANGED <<others, listed, activities>>

\* projects routes, lines 131-141: the activity is created and the project
\* returned
HoldActivity(e, ok) ==
  /\ edits[e].pc = "holdActivity"
  /\ IF ok
       THEN /\ activities' = Append(activities,
                 Activity("project", "updated", "project"))
            /\ edits' = [edits EXCEPT ![e] = [pc |-> "returned"]]
       ELSE /\ edits' = [edits EXCEPT ![e] = [pc |-> "failed"]]
            /\ UNCHANGED activities
  /\ UNCHANGED <<project, others, listed>>

projFrame ==
  <<cacheVars, pollVars, hubVars, fanVars, lifeVars, voteVars, commsVars, task,
    assignments, reporters, assigners>>

ProjNext ==
  \/ \E e \in Edits, id \in OtherIds, status \in PutStatusInputs, ok \in BOOLEAN :
        PutFind(e, id, status, ok) /\ UNCHANGED projFrame
  \/ \E e \in Edits, ok \in BOOLEAN : PutUpdate(e, ok) /\ UNCHANGED projFrame
  \/ \E e \in Edits, ok \in BOOLEAN : PutActivity(e, ok) /\ UNCHANGED projFrame
  \/ \E e \in Edits, ok \in BOOLEAN : EditTasks(e, ok) /\ UNCHANGED projFrame
  \/ \E e \in Edits, ok \in BOOLEAN : PutProject(e, ok) /\ UNCHANGED projFrame
  \/ \E e \in Edits, ok \in BOOLEAN : PutProjectWrite(e, ok) /\ UNCHANGED projFrame
  \/ \E e \in Edits, id \in TaskIds, ok \in BOOLEAN :
        DeleteFind(e, id, ok) /\ UNCHANGED projFrame
  \/ \E e \in Edits, ok \in BOOLEAN : DeleteRow(e, ok) /\ UNCHANGED projFrame
  \/ \E e \in Edits, ok \in BOOLEAN : DeleteWrite(e, ok) /\ UNCHANGED projFrame
  \/ \E e \in Edits, status \in HoldStatusInputs, ok \in BOOLEAN :
        HoldUpdate(e, status, ok) /\ UNCHANGED projFrame
  \/ \E e \in Edits, ok \in BOOLEAN : HoldActivity(e, ok) /\ UNCHANGED projFrame

(***************************************************************************)
(* Upvotes of a thread message:                                            *)
(* POST /api/projects/:projectId/messages/:messageId/upvote                *)
(* (index.js:445-477)                                                      *)
(***************************************************************************)

Votes == 1..NumVotes

\* request.body.voter of a request whose body names no voter
NoVoter == "undefined"

\* request.body.voter
Voters == {"Grim", "Scout"}
VoterInputs == Voters \cup {NoVoter}

\* request.params.messageId: the message of the model, or none of the store
MessageIdInputs == {"m1", "gone"}

\* JSON.stringify of an array: an element undefined is written as null
StringifyList(list) ==
  Stringify([i \in DOMAIN list |-> IF list[i] = NoVoter THEN Nil ELSE list[i]])

\* line 459: message.upvotes ? JSON.parse(message.upvotes) : []
StoredUpvotes(column) == IF column = NULL THEN <<>> ELSE Parse(column)

ToggleAlwaysPushes(list, voter) == Append(list, voter)

\* lines 461-465: a voter the list includes is filtered out, another is
\* pushed
Toggle(list, voter) ==
  IF \E i \in DOMAIN list : list[i] = voter
    THEN SelectSeq(list, LAMBDA v : v # voter)
    ELSE Append(list, voter)

IdleVote == [pc |-> "idle"]

VoteInit ==
  /\ upvotes = NULL
  /\ votes = [c \in Votes |-> IdleVote]
  /\ voteLog = <<>>

OpenVotes == {c \in Votes : votes[c].pc \in {"find", "update"}}

\* lines 445-452: the handler runs to the await of prisma.message.findUnique
VoteCall(c, voter, messageId) ==
  /\ votes[c].pc = "idle"
  /\ \A b \in Votes : b < c => votes[b].pc # "idle"
  /\ Cardinality(OpenVotes) < MaxOpenVotes
  /\ votes' = [votes EXCEPT ![c] =
        [pc |-> "find", voter |-> voter, messageId |-> messageId]]
  /\ UNCHANGED <<upvotes, voteLog>>

\* lines 450-470: findUnique answers; no message is 404, a throw is 500;
\* else the list is parsed and toggled, and the handler awaits
\* prisma.message.update with the list as text.  `seen` is the number of
\* updates made before the read.
VoteFind(c, ok) ==
  /\ votes[c].pc = "find"
  /\ votes' = [votes EXCEPT ![c] =
        IF ~ok THEN [pc |-> "failed"]
        ELSE IF votes[c].messageId # "m1"
          THEN [pc |-> "notFound"]
          ELSE [pc |-> "update", voter |-> votes[c].voter,
                read |-> StoredUpvotes(upvotes),
                data |-> StringifyList(Toggle(StoredUpvotes(upvotes),
                                              votes[c].voter)),
                seen |-> Len(voteLog)]]
  /\ UNCHANGED <<upvotes, voteLog>>

\* lines 467-472: the update answers and the row is returned; a throw is 500
VoteUpdate(c, ok) ==
  /\ votes[c].pc = "update"
  /\ IF ok
       THEN /\ upvotes' = votes[c].data
            /\ voteLog' = Append(voteLog,
                  [voter |-> votes[c].voter, seen |-> votes[c].seen,
                   read |-> votes[c].read, stored |-> Parse(votes[c].data)])
            /\ votes' = [votes EXCEPT ![c] =
                  [pc |-> "returned"]]
       ELSE /\ votes' = [votes EXCEPT ![c] =
                  [pc |-> "failed"]]
            /\ UNCHANGED <<upvotes, voteLog>>

voteFrame ==
  <<cacheVars, pollVars, taskVars, hubVars, fanVars, lifeVars, projVars,
    commsVars>>

VoteNext ==
  \/ \E c \in Votes, voter \in VoterInputs, messageId \in MessageIdInputs :
        VoteCall(c, voter, messageId) /\ UNCHANGED voteFrame
  \/ \E c \in Votes, ok \in BOOLEAN : VoteFind(c, ok) /\ UNCHANGED voteFrame
  \/ \E c \in Votes, ok \in BOOLEAN : VoteUpdate(c, ok) /\ UNCHANGED voteFrame

(***************************************************************************)
(* Direct chat with the coordinator: index.js:947-1024                     *)
(***************************************************************************)

Chats == 1..NumChats

\* request.body.content: absent, empty, blank, or a text with blanks around
ContentInputs == {Nil, "", " ", " hi "}

\* The stdout of the coordinator's process
StdoutInputs == {"", " ok "}

\* String.prototype.trim on the texts above
Trim(text) ==
  CASE text = " " -> ""
    [] text = " hi " -> "hi"
    [] text = " ok " -> "ok"
    [] OTHER -> text

\* line 950: !content || !content.trim()
IsBlank(content) == IF content = Nil THEN TRUE ELSE Trim(content) = ""

\* line 1000: stdout.trim() || '(no response)'
AtlasResponse(stdout) ==
  IF Trim(stdout) = "" THEN "(no response)" ELSE Trim(stdout)

IdleChat == [pc |-> "idle"]

CommsInit ==
  /\ chats = [c \in Chats |-> IdleChat]
  /\ commMessages = <<>>
  /\ commEvents = <<>>

\* prisma.commMessage.create: the row gets the next id
CreateComm(row) == Append(commMessages, row)

\* The requests whose handler has not answered yet
OpenChats == {c \in Chats : chats[c].pc \in {"createUser", "createAtlas", "projects"}}

\* lines 949-958: the content is validated; a blank one is answered 400,
\* else the handler awaits the create of the user's message
CommsCall(c, content) ==
  /\ chats[c].pc = "idle"
  /\ \A d \in Chats : d < c => chats[d].pc # "idle"
  /\ Cardinality(OpenChats) < MaxOpenChats
  /\ chats' = [chats EXCEPT ![c] =
        IF IsBlank(content) THEN [pc |-> "rejected"]
        ELSE [pc |-> "createUser", content |-> Trim(content)]]
  /\ UNCHANGED <<commMessages, commEvents>>

\* lines 955-961: the create of the user's message answers and the handler
\* awaits the create of the coordinator's pending message; a throw is
\* answered 500
CommsCreateUser(c, ok) ==
  /\ chats[c].pc = "createUser"
  /\ IF ok
       THEN /\ commMessages' = CreateComm([role |-> "user",
                                  content |-> chats[c].content, status |-> "done"])
            /\ chats' = [chats EXCEPT ![c] =
                  [pc |-> "createAtlas", userId |-> Len(commMessages')]]
       ELSE /\ chats' = [chats EXCEPT ![c] = [pc |-> "failed"]]
            /\ UNCHANGED commMessages
  /\ UNCHANGED commEvents

\* lines 959-969: the create of the pending message answers,
\* comms:message:user is emitted and the handler awaits
\* prisma.project.findMany
CommsCreateAtlas(c, ok) ==
  /\ chats[c].pc = "createAtlas"
  /\ IF ok
       THEN /\ commMessages' = CreateComm([role |-> "atlas", content |-> "",
                                           status |-> "pending"])
            /\ commEvents' = Append(commEvents,
                  [type |-> "comms:message:user", id |-> chats[c].userId,
                   status |-> "done"])
            /\ chats' = [chats EXCEPT ![c] =
                  [pc |-> "projects", userId |-> chats[c].userId,
                   atlasId |-> Len(commMessages')]]
       ELSE /\ chats' = [chats EXCEPT ![c] = [pc |-> "failed"]]
            /\ UNCHANGED <<commMessages, commEvents>>

\* lines 966-1019: the projects are read, the coordinator's process is
\* started without being awaited and the request is answered with the user's
\* message and the id of the pending one; a throw of the read is answered
\* 500 and no process is started
CommsProjects(c, ok) ==
  /\ chats[c].pc = "projects"
  /\ chats' = [chats EXCEPT ![c] =
        IF ok THEN [pc |-> "returned", userId |-> chats[c].userId,
                    atlasId |-> chats[c].atlasId, run |-> "running",
                    lastWrite |-> "none"]
        ELSE [pc |-> "failed"]]
  /\ UNCHANGED <<commMessages, commEvents>>

\* lines 998-1010: the process ends; with an exit of 0 the .then awaits the
\* update that stores the answer, else (a failure, or the timeout of 120 s)
\* the .catch awaits the update that stores the error
AtlasExit(c, ok, stdout) ==
  /\ chats[c].pc = "returned"
  /\ chats[c].run = "running"
  /\ chats' = [chats EXCEPT ![c] =
        IF ok THEN [@ EXCEPT !.run = "doneWrite"] @@ [response |-> AtlasResponse(stdout)]
        ELSE [@ EXCEPT !.run = "errWrite"]]
  /\ UNCHANGED <<commMessages, commEvents>>

CommsResponseAlways(ok, id, status) ==
  <<[type |-> "comms:atlas:response", id |-> id, status |-> status]>>

\* lines 1005-1007, 1014-1016: comms:atlas:response is emitted in the .then
\* of the update, so only when the store has applied it
CommsResponse(ok, id, status) ==
  IF ok THEN <<[type |-> "comms:atlas:response", id |-> id, status |-> status]>>
  ELSE <<>>

\* prisma.commMessage.update({where: {id}, data: {content, status}})
UpdateComm(id, content, status) ==
  [commMessages EXCEPT ![id] = [@ EXCEPT !.content = content, !.status = status]]

\* lines 1001-1010: the update to done answers and the event is emitted; a
\* throw of the update reaches the .catch of line 1009, which awaits the
\* update to error
AtlasDoneWrite(c, ok) ==
  /\ chats[c].pc = "returned"
  /\ chats[c].run = "doneWrite"
  /\ commMessages' = IF ok
       THEN UpdateComm(chats[c].atlasId, chats[c].response, "done")
       ELSE commMessages
  /\ commEvents' = commEvents \o CommsResponse(ok, chats[c].atlasId, "done")
  /\ chats' = [chats EXCEPT ![c] =
        IF ok THEN [@ EXCEPT !.run = "settled", !.lastWrite = "applied"]
        ELSE [@ EXCEPT !.run = "errWrite", !.lastWrite = "rejected"]]

\* lines 1011-1017: the update to error answers and the event is emitted; a
\* throw of the update is dropped by the .catch of line 1016
AtlasErrWrite(c, ok) ==
  /\ chats[c].pc = "returned"
  /\ chats[c].run = "errWrite"
  /\ commMessages' = IF ok
       THEN UpdateComm(chats[c].atlasId, "Error: failed", "error")
       ELSE commMessages
  /\ commEvents' = commEvents \o CommsResponse(ok, chats[c].atlasId, "error")
  /\ chats' = [chats EXCEPT ![c] =
        [@ EXCEPT !.run = "settled",
                  !.lastWrite = IF ok THEN "applied" ELSE "rejected"]]

commsFrame ==
  <<cacheVars, pollVars, taskVars, hubVars, fanVars, lifeVars, projVars,
    voteVars>>

CommsNext ==
  \/ \E c \in Chats, content \in ContentInputs :
        CommsCall(c, content) /\ UNCHANGED commsFrame
  \/ \E c \in Chats, ok \in BOOLEAN : CommsCreateUser(c, ok) /\ UNCHANGED commsFrame
  \/ \E c \in Chats, ok \in BOOLEAN : CommsCreateAtlas(c, ok) /\ UNCHANGED commsFrame
  \/ \E c \in Chats, ok \in BOOLEAN : CommsProjects(c, ok) /\ UNCHANGED commsFrame
  \/ \E c \in Chats, ok \in BOOLEAN, stdout \in StdoutInputs :
        AtlasExit(c, ok, stdout) /\ UNCHANGED commsFrame
  \/ \E c \in Chats, ok \in BOOLEAN : AtlasDoneWrite(c, ok) /\ UNCHANGED commsFrame
  \/ \E c \in Chats, ok \in BOOLEAN : AtlasErrWrite(c, ok) /\ UNCHANGED commsFrame

(***************************************************************************)
(* Specifications                                                          *)
(***************************************************************************)
Init ==
  /\ CacheInit /\ PollInit /\ TaskInit /\ HubInit /\ FanInit /\ LifeInit
  /\ ProjInit /\ VoteInit /\ CommsInit

SpecCache == Init /\ [][CacheNext]_vars

cacheFrame ==
  <<pollVars, taskVars, hubVars, fanVars, lifeVars, projVars, voteVars, commsVars>>

\* The external call of a refresh ends (execAsync has a timeout of 10 s, the
\* health check one of 5 s) and its .then or .catch runs
RefreshSettles(k) ==
  \E p \in DOMAIN promises :
    \/ /\ k = "sessions"
       /\ \/ \E status \in StatusOutputs : SessionsRefreshOk(p, status)
          \/ SessionsRefreshFail(p)
    \/ k = "health" /\ \E isHealthy \in BOOLEAN : HealthRefreshDone(p, isHealthy)

\* The cached routes with NumLiveCallers requests
CacheLiveNext ==
  \/ \E c \in 1..NumLiveCallers, k \in Keys : Request(c, k) /\ UNCHANGED cacheFrame
  \/ \E k \in Keys : RefreshSettles(k) /\ UNCHANGED cacheFrame
  \/ \E c \in Callers : Respond(c) /\ UNCHANGED cacheFrame
  \/ Tick /\ UNCHANGED cacheFrame

\* The cached routes with every started external call ending and every
\* settled promise answering its requests
SpecCacheLive ==
  /\ Init /\ [][CacheLiveNext]_vars
  /\ \A k \in Keys : WF_cacheVars(RefreshSettles(k))
  /\ \A c \in Callers : WF_cacheVars(Respond(c))
SpecPoll == Init /\ [][PollNext]_vars

\* The schedules in which every poll ends before the next timer tick
StartPollAfterLast(q) == InFlight = {} /\ StartPoll(q)

PollSerialNext ==
  \/ \E q \in PollIds : StartPollAfterLast(q) /\ UNCHANGED <<cacheVars, taskVars, hubVars, fanVars, lifeVars, projVars, voteVars, commsVars>>
  \/ \E q \in PollIds, ok \in BOOLEAN, list \in SessionLists :
        FetchDone(q, ok, list) /\ UNCHANGED <<cacheVars, taskVars, hubVars, fanVars, lifeVars, projVars, voteVars, commsVars>>
  \/ \E q \in PollIds, ok \in BOOLEAN : RegFind(q, ok) /\ UNCHANGED <<cacheVars, taskVars, hubVars, fanVars, lifeVars, projVars, voteVars, commsVars>>
  \/ \E q \in PollIds, ok \in BOOLEAN : RegWrite(q, ok) /\ UNCHANGED <<cacheVars, taskVars, hubVars, fanVars, lifeVars, projVars, voteVars, commsVars>>
  \/ \E q \in PollIds, ok \in BOOLEAN : MarkOffline(q, ok) /\ UNCHANGED <<cacheVars, taskVars, hubVars, fanVars, lifeVars, projVars, voteVars, commsVars>>

SpecPollSerial == Init /\ [][PollSerialNext]_vars
SpecTask == Init /\ [][TaskNext]_vars
SpecHub == Init /\ [][HubNext]_vars
SpecFan == Init /\ [][FanNext]_vars
SpecLife == Init /\ [][LifeNext]_vars
SpecProj == Init /\ [][ProjNext]_vars
SpecAgent == Init /\ [][AgentNext]_vars
SpecStatus == Init /\ [][StatusNext]_vars

\* The chat with the coordinator: a process that was started ends (the call
\* has a timeout of 120 s) and the store answers, or rejects, each update
SpecComms ==
  /\ Init /\ [][CommsNext]_vars
  /\ \A c \in Chats :
       /\ WF_commsVars(\E ok \in BOOLEAN, stdout \in StdoutInputs : AtlasExit(c, ok, stdout))
       /\ WF_commsVars(\E ok \in BOOLEAN : AtlasDoneWrite(c, ok))
       /\ WF_commsVars(\E ok \in BOOLEAN : AtlasErrWrite(c, ok))
SpecVote == Init /\ [][VoteNext]_vars
SpecThread == Init /\ [][ThreadNext]_vars

(***************************************************************************)
(* Claims about the status cache                                           *)
(***************************************************************************)

\* C1: for each cached query (health, sessions), in every reachable state at
\* most one external call for that key is outstanding.
C1_AtMostOneOutstanding ==
  \A k \in Keys : Cardinality(Outstanding(k)) <= 1

\* C1 witness: a refresh of a key is outstanding after an earlier refresh of
\* that key has settled, and two callers of the key are awaiting their reply.
C1_Witness ==
  \E k \in Keys :
    /\ Cardinality(Outstanding(k)) = 1
    /\ Cardinality(Settled(k)) >= 1
    /\ Cardinality({c \in Callers : callers[c].key = k
                       /\ callers[c].state = "waiting"}) >= 2

\* The callers of key k that missed the cache in epoch e (after e refreshes
\* of k had settled and before the next one did)
Missed(k, e) ==
  {c \in Callers : callers[c].key = k /\ ~callers[c].hit
                   /\ callers[c].state # "idle" /\ callers[c].epoch = e}

\* C2: the callers that miss the same key before the refresh completes are
\* served by exactly one external call and all receive the same result.
C2_Coalescing ==
  \A k \in Keys, e \in 0..MaxRefresh :
    Missed(k, e) # {} =>
      /\ Cardinality({p \in PromisesOf(k) : promises[p].epoch = e}) = 1
      /\ \A c, d \in Missed(k, e) :
           (callers[c].state = "done" /\ callers[d].state = "done")
             => callers[c].result = callers[d].result

\* C2 witness: three callers missed the same key in one epoch, all three have
\* their reply, and a later refresh of the key has produced a different value.
C2_Witness ==
  \E k \in Keys, e \in 0..MaxRefresh :
    /\ Cardinality({c \in Missed(k, e) : callers[c].state = "done"}) >= 2
    /\ \E c \in Missed(k, e) :
         callers[c].state = "done" /\ callers[c].result # cacheResult[k]

\* The payload a cold cache of key k answers with after a failed refresh
DefaultResult(k) ==
  IF k = "sessions" THEN SessionsDefault ELSE HealthResult(FALSE, now)

\* C21: a refresh that fails resolves, for the callers waiting on it, to the
\* value the cache held before it if there was one, and to the default
\* result only if there was none; for the health key and the sessions key.
C21_FailedRefreshServesPrevious ==
  [][\A k \in Keys : \A p \in Outstanding(k) :
       (promises'[p].state = "resolved" /\ promises'[p].failed) =>
         promises'[p].value =
           IF cacheResult[k] # NULL THEN cacheResult[k] ELSE DefaultResult(k)]_vars

\* The external calls started by the requests of the callers in set: a
\* refresh is started by the first caller that awaits it
StartedBy(set) ==
  {p \in DOMAIN promises :
     \E c \in set : /\ callers[c].promise = p
                     /\ \A b \in Callers : callers[b].promise = p => c <= b}

\* C22: two sessions queries that arrive less than the TTL apart are given
\* the same payload and start at most one external call between them, and
\* a query served from a cached value younger than the TTL starts none.
C22_OneCallPerTtlWindow ==
  /\ \A c, d \in Callers :
       ( /\ c < d
         /\ callers[c].key = "sessions" /\ callers[d].key = "sessions"
         /\ callers[c].state = "done" /\ callers[d].state = "done"
         /\ (callers[d].at - callers[c].at) * ClockStep < CacheTtlMs )
         => /\ callers[c].result = callers[d].result
            /\ Cardinality(StartedBy({c, d})) <= 1
  /\ \A c \in Callers : callers[c].hit => callers[c].promise = 0

(***************************************************************************)
(* Claims about the reconciler                                             *)
(***************************************************************************)

\* A step of poll q after its external session query has failed
FailedPollStep(q) ==
  \/ FetchDone(q, FALSE, <<>>)
  \/ polls[q].failed /\ \E ok \in BOOLEAN : MarkOffline(q, ok)

\* C3: a poll cycle whose external session query fails leaves every agent's
\* status and the known-sessions map unchanged.
C3_FailedPollChangesNothing ==
  [][\A q \in PollIds :
       FailedPollStep(q) =>
         /\ knownSessions' = knownSessions
         /\ DOMAIN agents' = DOMAIN agents
         /\ \A n \in DOMAIN agents : agents'[n].status = agents[n].status]_vars

\* C4: at most one execution of syncOpenClawAgents is in flight at any time.
C4_SinglePollInFlight == Cardinality(InFlight) <= 1

\* The step of poll q, whose session query succeeded, in which the update
\* that marks the agents of the vanished session polls[q].cur offline is
\* applied
MarksOffline(q) ==
  /\ polls[q].pc = "offline"
  /\ ~polls[q].failed
  /\ MarkOffline(q, TRUE)

\* C23: once a poll whose query succeeded has handled a known sub-agent
\* session that is no longer listed, the session is not in the
\* known-sessions map and the agent registered for it is offline; and no
\* step removes a session that is not of a sub-agent from the map.
C23_VanishedSubAgentOffline ==
  [][/\ \A q \in PollIds :
          MarksOffline(q) =>
            /\ polls[q].cur \notin Range(knownSessions')
            /\ AgentName(polls[q].cur) \in DOMAIN agents' =>
                 agents'[AgentName(polls[q].cur)].status = "offline"
     /\ \A sid \in Range(knownSessions) :
          ~IsSubAgent(sid) => sid \in Range(knownSessions')]_vars

\* C24: the step in which the reconciler marks an agent offline emits an
\* event on the bus.
C24_OfflinePublishesDisconnected ==
  [][\A q \in PollIds :
       ( /\ MarksOffline(q)
         /\ \E n \in DOMAIN agents :
              agents[n].status # "offline" /\ agents'[n].status = "offline" )
         => emitted' = emitted + 1]_vars

(***************************************************************************)
(* Claims about the assignment routes                                      *)
(***************************************************************************)

\* The responses list of the assignment the task row holds
StoredResponses ==
  IF task.assignment = NULL THEN <<>>
  ELSE IF Parse(task.assignment).responses = NULL THEN <<>>
  ELSE Parse(Parse(task.assignment).responses)

\* Every progress report made so far has returned successfully
AllReportsSucceeded ==
  \A r \in Reporters : reporters[r].pc \in {"idle", "succeeded"}

\* C5: for one assignment no appended response is lost under concurrent
\* progress reports: once all reports have completed, the responses list is
\* as long as the number of reports that returned successfully.  (Stated for
\* the runs in which no report failed, so that every report counted has
\* appended.)
C5_NoLostResponse ==
  (AllReportsSucceeded /\ task.assignment # NULL) =>
    Len(StoredResponses) =
      Cardinality({r \in Reporters :
                     /\ reporters[r].pc = "succeeded"
                     /\ reporters[r].assignmentId = Parse(task.assignment).id})

(***************************************************************************)
(* Claims about the event bus and the WebSocket hub                        *)
(***************************************************************************)

\* C6: a broadcast of an event of kind K reaches a connection only if the
\* subscriptions the connection declared contain K, the category of K or the
\* wildcard; a client that declared {task} never receives note:new.
C6_OnlySubscribedKinds ==
  LET Category == [k \in EventKinds |->
                     IF k = "task:updated" THEN "task" ELSE "note"]
  IN \A ws \in Registered :
       \A i \in DOMAIN inbox[ws] :
         inbox[ws][i].id > 0 =>
           \/ "*" \in InfoOf(ws).subscriptions
           \/ inbox[ws][i].type \in InfoOf(ws).subscriptions
           \/ Category[inbox[ws][i].type] \in InfoOf(ws).subscriptions

\* C7: between the handling of a connection's subscribe message and the
\* sending of its snapshot, no live event is delivered to the connection.
C7_SnapshotBeforeLiveEvents ==
  \A ws \in Conns :
    sockets[ws].subscribing =>
      \A i \in DOMAIN inbox[ws] : inbox[ws][i].id = 0

C9_PerKindFifo ==
  \A ws \in Conns :
    \A i, j \in DOMAIN inbox[ws] :
      ( /\ i < j
        /\ inbox[ws][i].id > 0
        /\ inbox[ws][j].id > 0
        /\ inbox[ws][i].type = inbox[ws][j].type )
        => inbox[ws][i].id < inbox[ws][j].id

\* C9 witness: a connection has received two published events of one kind.
C9_Witness ==
  \E ws \in Conns :
    \E i, j \in DOMAIN inbox[ws] :
      /\ i < j
      /\ inbox[ws][i].id > 0
      /\ inbox[ws][i].type = inbox[ws][j].type

\* C10: in a broadcast where the send to one connection throws, every other
\* registered connection that is open is sent the event, and broadcast
\* returns to its caller without throwing.
C10_SendErrorIsolated ==
  [][\A kind \in EventKinds, failing \in FailingChoices :
       (failing # {} /\ Publish(kind, failing)) =>
         LET msg == [type |-> kind, id |-> emitted + 1] IN
           /\ ~Broadcast(inbox, msg, failing).threw
           /\ \A ws \in Registered \ failing :
                sockets[ws].state = "open" =>
                  /\ Len(inbox'[ws]) = Len(inbox[ws]) + 1
                  /\ \E i \in DOMAIN inbox'[ws] : inbox'[ws][i] = msg]_vars

\* C10 witness: a send of the last broadcast threw, and a connection that
\* comes after the failing one in the Map has received the event.
C10_Witness ==
  /\ lastEmit.sendThrew
  /\ \E i, j \in DOMAIN clients :
       /\ i < j
       /\ sockets[clients[i].ws].state = "open"
       /\ \A m \in DOMAIN inbox[clients[i].ws] :
            inbox[clients[i].ws][m].id # lastEmit.id
       /\ \E m \in DOMAIN inbox[clients[j].ws] :
            inbox[clients[j].ws][m].id = lastEmit.id

(***************************************************************************)
(* Claims about the notification fanout                                    *)
(***************************************************************************)

\* The agents the dispatches of request p started so far are addressed to
Issued(p) == {d.to : d \in {e \in dispatches : e.post = p}}

\* The agents the route notifies for request p: Atlas unless Atlas posted,
\* and every sub-agent of the project but the author
Recipients(p) ==
  {d.to : d \in AtlasDispatch(p, posts[p].author)
               \cup SubAgentDispatches(p, posts[p].author)}

\* C11: a dispatch that fails or times out changes no request, no stored
\* record and no other dispatch, and a request that has returned its record
\* has started the dispatch to every one of its recipients, whatever became
\* of the dispatches it started first.
C11_FailedDispatchIsolated ==
  /\ [](\A p \in Posts : posts[p].pc = "returned" => Issued(p) = Recipients(p))
  /\ [][\A d \in dispatches :
          DispatchFail(d) =>
            /\ posts' = posts
            /\ notes' = notes
            /\ messages' = messages
            /\ activities' = activities
            /\ \A e \in dispatches \ {d} : e \in dispatches']_vars

\* C11 witness: a request has returned its record, one of its dispatches
\* has failed and its dispatch to another recipient exists and has not.
C11_Witness ==
  \E d, e \in dispatches :
    /\ d.post = e.post
    /\ posts[d.post].pc = "returned"
    /\ d.to # e.to
    /\ d.state = "failed"
    /\ e.state \in {"running", "done", "written"}

\* The handler of request p has sent its response
Responded(p) == posts[p].pc \in {"returned", "failed", "notFound"}

\* C12: the process of a dispatch is started only after the request that
\* causes it has sent its response.
C12_ResponseBeforeDispatch ==
  \A d \in dispatches : Responded(d.post)

\* The author of a post is the coordinator
IsCoordinator(author) == author.name = "ATLAS" \/ author.role = "atlas"

\* The agents that are the assignee of a task of the project: the callsigns
\* with an openclaw agent id
AssignedAgents ==
  {ProjectTaskAssignees[i] : i \in DOMAIN ProjectTaskAssignees}
    \cap DOMAIN CALLSIGN_TO_AGENT

\* The recipients the fanout is to address for a post of `author`: the
\* coordinator unless it is the author, and the agent of every assigned
\* callsign other than the coordinator and the author
ExpectedRecipients(author) ==
  (IF IsCoordinator(author) THEN {} ELSE {"main"})
    \cup {CALLSIGN_TO_AGENT[a] : a \in AssignedAgents \ {"ATLAS", author.name}}

After(d) ==
  CHOOSE e \in dispatches' : e.post = d.post /\ e.n = d.n

\* The event a step has emitted carries a note or a thread reply of Atlas
\* that is in the store after the step
PublishesStoredAtlasRecord(d) ==
  /\ Len(published') = Len(published) + 1
  /\ SubSeq(published', 1, Len(published)) = published
  /\ LET event == published'[Len(published')]
         record == event.record
     IN IF posts[d.post].kind = "note"
          THEN /\ event.type = "note:new"
               /\ record.author = "ATLAS"
               /\ notes' = Append(notes, record)
               /\ messages' = messages
          ELSE /\ event.type = "message:new"
               /\ messages'[record.id] = record
               /\ LET replies == Parse(record.replies)
                  IN replies[Len(replies)].author = "ATLAS"
               /\ notes' = notes

\* C26: the dispatch to Atlas whose output is not blank goes on to write
\* the output back; the step in which the write-back succeeds stores a new
\* note, or the thread with a new reply, of author ATLAS and emits one event
\* that carries the stored record; a dispatch to a sub-agent never writes
\* back, and no step of it changes the notes, the messages or the events.
C26_AtlasReplyWrittenThenPublished ==
  /\ [](\A d \in dispatches :
          /\ (d.answers /\ d.out = "text") =>
                d.state \in {"writing", "written", "failed"}
          /\ d.state \in {"writing", "written"} => d.to = "main"
          /\ ~d.answers => d.state \in {"running", "done", "failed"})
  /\ [][\A d \in dispatches :
          /\ (d.state = "writing" /\ After(d).state = "written")
                => PublishesStoredAtlasRecord(d)
          /\ (~d.answers /\ After(d) # d)
                => /\ notes' = notes
                   /\ messages' = messages
                   /\ published' = published]_vars

\* C26 witness: the answer of Atlas to a reply has been written to the
\* thread and published after the reply itself, and a sub-agent's process
\* has exited with its output dropped.
C26_Witness ==
  \E d, e \in dispatches :
    /\ d.post = e.post
    /\ posts[d.post].kind = "reply"
    /\ d.state = "written"
    /\ e.state = "done" /\ e.out = "ignored"
    /\ Len(published) = 2
    /\ published[2].record = messages[1]
    /\ Len(Parse(messages[1].replies)) = 2

(***************************************************************************)
(* Claims about the task life cycle                                        *)
(***************************************************************************)

\* The step in which the prisma.task.update of report q takes effect
ReportWrites(q) ==
  /\ lifeReqs[q].pc = "write"
  /\ lifeReqs[q].kind = "report"
  /\ lifeReqs'[q].pc = "activity"

\* C13: the update of a report writes the status its inputs give: the
\* explicit status when one is given; else done, with completedAt set, for
\* a progress of 100 or more, in_progress for a progress between 0 and 100,
\* and the status the handler read from the task for a progress of 0 or no
\* progress.
C13_ReportStatusRule ==
  [][\A q \in LifeReqs :
       ReportWrites(q) =>
         LET r == lifeReqs[q] IN
           /\ r.status # Nil => task'.status = r.status
           /\ (r.status = Nil /\ r.progress.given /\ r.progress.value >= 100)
                 => task'.status = "done" /\ task'.completedAt = DateNow
           /\ ( /\ r.status = Nil
                /\ r.progress.given
                /\ 0 < r.progress.value
                /\ r.progress.value < 100 ) => task'.status = "in_progress"
           /\ (r.status = Nil /\ (~r.progress.given \/ r.progress.value = 0))
                 => task'.status = r.read.status]_vars

\* C13 witness: a report with the explicit status in_progress has been
\* written to a task whose progress is 100: the explicit status won.
C13_Witness ==
  \E q \in LifeReqs :
    /\ lifeReqs[q].pc = "activity"
    /\ lifeReqs[q].kind = "report"
    /\ lifeReqs[q].newStatus = "in_progress"
    /\ task.status = "in_progress"
    /\ task.progress = 100

\* The order of the task states
Rank(status) ==
  CASE status = "pending" -> 0
    [] status = "assigned" -> 1
    [] status = "in_progress" -> 2
    [] status = "done" -> 3

\* C14: the update of a report that gives a progress and no status never
\* moves the status of the task backwards in the order pending, assigned,
\* in_progress, done.
C14_ReportsNeverMoveBack ==
  [][\A q \in LifeReqs :
       ( /\ ReportWrites(q)
         /\ lifeReqs[q].status = Nil
         /\ lifeReqs[q].progress.given )
         => Rank(task'.status) >= Rank(task.status)]_vars

\* C15: the progress of the task is 100 exactly when its status is done.
C15_ProgressFullIffDone ==
  task.progress = 100 <=> task.status = "done"

\* C16: when the update of a verify sets verified, the status of the task
\* is done.
C16_VerifiedOnlyWhenDone ==
  [][\A q \in LifeReqs :
       ( /\ lifeReqs[q].pc = "update"
         /\ lifeReqs[q].kind = "verify"
         /\ lifeReqs'[q].pc = "activity"
         /\ task'.verified )
         => task'.status = "done"]_vars

C19_ReopenResets ==
  [][\A q \in LifeReqs :
       /\ ( /\ lifeReqs[q].pc = "update"
            /\ lifeReqs[q].kind = "reopen"
            /\ lifeReqs'[q].pc = "activity"
            /\ task.status = "done" )
            => /\ task'.status = "in_progress"
               /\ task'.verified = FALSE
               /\ task'.verifiedBy = Nil
               /\ task'.verifiedAt = Nil
               /\ task'.completedAt = Nil
               /\ task'.progress = 0
               /\ activities' = activities
       /\ ( /\ lifeReqs[q].pc = "activity"
            /\ lifeReqs[q].kind = "reopen"
            /\ lifeReqs'[q].pc = "returned" )
            => /\ activities' =
                    Append(activities,
                           Activity("task", "reopened", lifeReqs[q].reason))
               /\ task' = task]_vars

\* C19 witness: a task that was completed has been reopened with a reason,
\* and the reopen has returned.
C19_Witness ==
  /\ task.status = "in_progress"
  /\ task.progress = 0
  /\ task.completedAt = Nil
  /\ Len(activities) >= 2
  /\ activities[Len(activities) - 1].action = "completed"
  /\ activities[Len(activities)] = Activity("task", "reopened", "rework")

\* The step in which report q returns its result
ReportReturns(q) ==
  /\ lifeReqs[q].pc \in {"activity", "verification"}
  /\ lifeReqs[q].kind = "report"
  /\ lifeReqs'[q].pc = "returned"

\* Report q, at the step in which it returns, has set the status done
ReturnsDone(q) ==
  lifeReqs[q].pc = "verification" \/ lifeReqs[q].newStatus = "done"

\* C20: a report that names its agent, has set the status done and returns
\* has started one verification request if the agent is not Atlas, addressed
\* to Atlas (main) and not to the reporting agent, and none if the agent is
\* Atlas; no other step starts a verification request.
C20_OneVerificationRequest ==
  [][/\ \A q \in LifeReqs :
          (ReportReturns(q) /\ ReturnsDone(q) /\ lifeReqs[q].agentName # Nil) =>
            IF lifeReqs[q].agentName = "ATLAS"
              THEN verifyDispatches' = verifyDispatches
              ELSE /\ Len(verifyDispatches') = Len(verifyDispatches) + 1
                   /\ verifyDispatches'[Len(verifyDispatches')].to =
                        CALLSIGN_TO_AGENT["ATLAS"]
                   /\ verifyDispatches'[Len(verifyDispatches')].to #
                        CALLSIGN_TO_AGENT[lifeReqs[q].agentName]
                   /\ SubSeq(verifyDispatches', 1, Len(verifyDispatches)) =
                        verifyDispatches
     /\ verifyDispatches' # verifyDispatches =>
          \E q \in LifeReqs : ReportReturns(q) /\ ReturnsDone(q)]_vars

\* C20 witness: the report of Scout has set the task done and returned, and
\* the one verification request there is names Scout and goes to main.
C20_Witness ==
  /\ task.status = "done"
  /\ verifyDispatches = <<VerificationDispatch("Scout")>>
  /\ \E q \in LifeReqs : lifeReqs[q].pc = "returned"

(***************************************************************************)
(* Claims about the assignment records                                     *)
(***************************************************************************)

\* C18: every assignment record is created with a statusHistory of exactly
\* two entries, pending and then assigned.
C18_TwoEntrySeed ==
  \A i \in DOMAIN assignments :
    LET history == Parse(assignments[i].statusHistory)
    IN /\ Len(history) = 2
       /\ history[1].status = "pending"
       /\ history[2].status = "assigned"

\* The step in which the last store call of the task transition of request
\* or message q answers with success
TransitionSucceeds(q) ==
  /\ lifeReqs[q].pc = "activity"
  /\ lifeReqs'[q].pc \in {"returned", "verification"}

\* C29: the step in which a task transition (a report, a verify, a reopen,
\* an agent:progress or an agent:complete) succeeds emits a task:updated
\* event on the bus.
C29_TransitionPublishesTaskUpdated ==
  [][\A q \in LifeReqs :
       TransitionSucceeds(q) =>
         published' = Append(published, Event("task:updated", "task"))]_vars

(***************************************************************************)
(* Claims about the project's progress and status                          *)
(***************************************************************************)

\* round(100 * doneCount / totalCount) over the tasks now in the project
ExpectedProgress ==
  IF TasksOfProject = <<>> THEN 0
  ELSE RoundPercent(CountIn(TasksOfProject, {"done", "completed"}),
                    Len(TasksOfProject))

\* C27: whenever every request that changes a task has either not arrived
\* or ended with success, the progress of the project is
\* round(100 * doneCount / totalCount) over its tasks.
C27_ProgressFollowsTasks ==
  ( /\ \A q \in LifeReqs : lifeReqs[q].pc \in {"idle", "returned"}
    /\ \A e \in Edits : edits[e].pc \in {"idle", "returned", "notFound"} )
    => project.progress = ExpectedProgress

\* The step in which the prisma.project.update of request e takes effect
ProjectWrites(e) ==
  /\ edits[e].pc = "write"
  /\ edits'[e].pc = "returned"

\* C28: the project update that follows a change of a task's status leaves
\* the status of a project it read as blocked or on_hold as it is, and else
\* writes not_started when none of the tasks it read is done, completed
\* when all are, in_progress otherwise, with the progress
\* round(100 * doneCount / totalCount); the project update of a delete that
\* left no task writes the progress 0 and leaves the status as it is.
C28_ProjectStatusRule ==
  [][\A e \in Edits :
       ProjectWrites(e) =>
         LET r == edits[e]
             doneCount == CountIn(r.tasks, {"done", "completed"})
         IN IF r.kind = "put"
              THEN /\ project'.progress = RoundPercent(doneCount, Len(r.tasks))
                   /\ r.projectStatus \in {"blocked", "on_hold"}
                        => project'.status = project.status
                   /\ (r.projectStatus \notin {"blocked", "on_hold"}
                        /\ doneCount = 0) => project'.status = "not_started"
                   /\ (r.projectStatus \notin {"blocked", "on_hold"}
                        /\ doneCount = Len(r.tasks))
                        => project'.status = "completed"
                   /\ (r.projectStatus \notin {"blocked", "on_hold"}
                        /\ 0 < doneCount /\ doneCount < Len(r.tasks))
                        => project'.status = "in_progress"
              ELSE r.tasks = <<>> =>
                     /\ project'.progress = 0
                     /\ project'.status = project.status]_vars

\* C28 witness: after the row `task` was deleted, the update of the last
\* task from done to completed has made the project completed at 100.
C28_Witness ==
  /\ ~listed
  /\ Len(others) = 1
  /\ others[1].status = "completed"
  /\ project = [progress |-> 100, status |-> "completed"]
  /\ OpenEdits = {}

(***************************************************************************)
(* Claims about the close of an agent's connection                         *)
(***************************************************************************)

\* The agent:disconnected messages a connection holds
DisconnectedNotices(box) ==
  Len(SelectSeq(box, LAMBDA msg : msg.type = "agent:disconnected"))

\* The step in which handleDisconnect returns for an agent's connection
FinishesAgentClose(ws) ==
  /\ sockets[ws].state = "offlining"
  /\ sockets'[ws].state = "closed"

C31_SendErrorRemovesConnection ==
  [][\A kind \in EventKinds, failing \in FailingChoices :
       Publish(kind, failing) =>
         \A ws \in failing :
           ~ \E i \in DOMAIN clients' : clients'[i].ws = ws]_vars

(***************************************************************************)
(* Claims about the upvotes of a thread message                            *)
(***************************************************************************)

\* How often a voter is in a list
TimesIn(list, voter) == Len(SelectSeq(list, LAMBDA v : v = voter))

\* Updates i and i + 1 of the column are those of two consecutive calls of
\* one voter: each call read the column as the update before it left it
ConsecutiveVotes(i) ==
  /\ i + 1 \in DOMAIN voteLog
  /\ voteLog[i].voter \in Voters
  /\ voteLog[i + 1].voter = voteLog[i].voter
  /\ voteLog[i].seen = i - 1
  /\ voteLog[i + 1].seen = i

StoredReplies(message) ==
  IF message.replies = NULL THEN <<>> ELSE Parse(message.replies)

\* C33: a reply stored in the thread message is in the message after every
\* step.
C33_RepliesAppendOnly ==
  [][Range(StoredReplies(messages[1])) \subseteq
       Range(StoredReplies(messages'[1]))]_vars

(***************************************************************************)
(* Claims about failed and completed refreshes of the status cache         *)
(***************************************************************************)

\* C34: the step in which a refresh fails stores the entry of its key with
\* the time of the step, holding the value it held.
C34_FailedRefreshStoresFreshTimestamp ==
  [][\A k \in Keys : \A p \in Outstanding(k) :
       (promises'[p].state = "resolved" /\ promises'[p].failed) =>
         /\ cacheTs'[k] = now
         /\ cacheResult'[k] = cacheResult[k]]_vars

(***************************************************************************)
(* Claims about the order of the write and the event                       *)
(***************************************************************************)

C36_KnownSessionHasAgent ==
  InFlight = {} =>
    \A sid \in Range(knownSessions) :
      (IsSubAgent(sid) \/ IsDirect(sid)) => AgentName(sid) \in DOMAIN agents

\* The query of caller c for key k that finds the entry stale or missing
\* and no refresh pending
StaleQuery(c, k) ==
  /\ callers[c].state = "idle"
  /\ callers'[c].state # "idle"
  /\ callers'[c].key = k
  /\ ~IsFresh(k)
  /\ pending[k] = 0

\* C37: the marker of a key is set only while a refresh of the key is
\* running; a query that finds the entry stale and the marker clear starts
\* a refresh and awaits it; every request that awaits a refresh is answered.
C37_MarkerClearedOnCompletion ==
  /\ [](\A k \in Keys :
          pending[k] # 0 => pending[k] \in Outstanding(k))
  /\ [][\A c \in Callers, k \in Keys :
          StaleQuery(c, k) =>
            /\ Len(promises') = Len(promises) + 1
            /\ pending'[k] = Len(promises')
            /\ callers'[c].promise = pending'[k]]_vars
  /\ \A c \in Callers :
       (callers[c].state = "waiting") ~> (callers[c].state = "done")

\* C37 witness: a sessions refresh has failed, a later one has been started
\* by a query and has completed, its request is answered and the marker is
\* clear.
C37_Witness ==
  \E p1, p2 \in DOMAIN promises, c \in Callers :
    /\ p1 < p2
    /\ promises[p1].key = "sessions" /\ promises[p2].key = "sessions"
    /\ promises[p1].failed
    /\ promises[p2].state = "resolved"
    /\ callers[c].promise = p2 /\ callers[c].state = "done"
    /\ pending["sessions"] = 0

(***************************************************************************)
(* Claims about the end of the fanout                                      *)
(***************************************************************************)

\* The processes started so far: the request, the agent and the call
Started(set) == {<<d.post, d.to, d.n>> : d \in set}

\* C38: a request starts at most one process per agent, the coordinator
\* included, and a process is started only in a step of a request handler:
\* never in the step that writes the answer of the coordinator back.
C38_FanoutTerminates ==
  /\ [](\A p \in AllPosts : \A d, f \in dispatches :
          (d.post = p /\ f.post = p /\ d.to = f.to) => d = f)
  /\ [][Started(dispatches') # Started(dispatches) =>
          \E p \in AllPosts : /\ posts'[p] # posts[p]
                              /\ posts[p].pc \in {"project", "recent", "subAgents"}]_vars

\* C38 witness: the request of a user has returned, the answer of the
\* coordinator has been written back and published, and the processes are
\* those the request started: one for the coordinator and one per sub-agent.
C38_Witness ==
  \E p \in Posts :
    /\ posts[p].pc = "returned"
    /\ posts[p].author.role = "human"
    /\ \E d \in dispatches : d.post = p /\ d.to = "main" /\ d.state = "written"
    /\ Cardinality(dispatches) = 1 + Len(getProjectSubAgents(posts[p].author.name))

(***************************************************************************)
(* Claims about who receives the broadcasts of the hub                     *)
(***************************************************************************)

\* An open connection that has sent neither agent:register nor
\* dashboard:subscribe
SentNeither(ws) ==
  /\ sockets[ws].state = "open"
  /\ ~sockets[ws].subscribed
  /\ sockets[ws].reg = "none"

\* C39: a connection that has sent neither agent:register nor
\* dashboard:subscribe is not in the Map of the hub and has been sent nothing
\* but the welcome of its opening, whatever else it has sent.
C39_OnlyRegisteredOrSubscribedReceive ==
  \A ws \in Conns :
    SentNeither(ws) =>
      /\ ws \notin Registered
      /\ \A i \in DOMAIN inbox[ws] : inbox[ws][i].type = "welcome"

\* C39, its second half alone: such a connection has been sent no broadcast
C39_NoBroadcastToUnregistered ==
  \A ws \in Conns :
    SentNeither(ws) =>
      \A i \in DOMAIN inbox[ws] : inbox[ws][i].type = "welcome"

(***************************************************************************)
(* Claims about the chat with the coordinator                              *)
(***************************************************************************)

\* The request was answered 200: the coordinator's process was started
Accepted(c) == chats[c].pc = "returned"

\* The positions in commEvents of the comms:atlas:response events of a
\* pending message
ResponsesFor(id) ==
  {i \in DOMAIN commEvents :
     commEvents[i].type = "comms:atlas:response" /\ commEvents[i].id = id}

\* comms:message:user of an exchange stands before each of its
\* comms:atlas:response events
UserEventFirst ==
  \A c \in Chats :
    Accepted(c) =>
      \A i \in ResponsesFor(chats[c].atlasId) :
        \E j \in 1..(i - 1) :
          /\ commEvents[j].type = "comms:message:user"
          /\ commEvents[j].id = chats[c].userId

\* C40 as stated: comms:message:user is published before any
\* comms:atlas:response of the exchange, and once the call of an accepted
\* request has ended and its handlers have run, the pending message is done
\* or error and exactly one comms:atlas:response was published for it.
C40_PendingAlwaysResolved ==
  /\ UserEventFirst
  /\ \A c \in Chats :
       (Accepted(c) /\ chats[c].run = "settled") =>
         /\ commMessages[chats[c].atlasId].status \in {"done", "error"}
         /\ Cardinality(ResponsesFor(chats[c].atlasId)) = 1

\* What holds of an accepted exchange in every state
ExchangeState(c) ==
  LET row == commMessages[chats[c].atlasId]
      events == ResponsesFor(chats[c].atlasId)
  IN IF chats[c].run = "settled" /\ chats[c].lastWrite = "applied"
       THEN /\ row.status \in {"done", "error"}
            /\ row.status = "done" =>
                 /\ row.content = chats[c].response
                 /\ row.content # ""
            /\ Cardinality(events) = 1
            /\ \A i \in events : commEvents[i].status = row.status
       ELSE /\ row.status = "pending"
            /\ row.content = ""
            /\ events = {}

\* C40, amended: comms:message:user is published before any
\* comms:atlas:response of the exchange; the call of every accepted request
\* ends and its handlers run to their end; the pending message leaves
\* pending exactly when the store applies the update to done, or, after a
\* failed call or a rejected update to done, the update to error; then it is
\* done (with the trimmed answer stored) or error and exactly one
\* comms:atlas:response with that status was published; when the store
\* rejects the last update the message stays pending and no
\* comms:atlas:response is published.
C40_ExchangeSettles ==
  /\ [](UserEventFirst)
  /\ [](\A c \in Chats : Accepted(c) => ExchangeState(c))
  /\ \A c \in Chats : Accepted(c) ~> (Accepted(c) /\ chats[c].run = "settled")

\* C40 witness: of two accepted exchanges, one had its update to done
\* rejected and its update to error applied, and one event was published
\* for it; the other had its last update rejected and stays pending.
C40_Witness ==
  \E c, d \in Chats :
    /\ Accepted(c) /\ Accepted(d)
    /\ chats[c].run = "settled" /\ chats[d].run = "settled"
    /\ chats[c].lastWrite = "applied" /\ "response" \in DOMAIN chats[c]
    /\ commMessages[chats[c].atlasId].status = "error"
    /\ Cardinality(ResponsesFor(chats[c].atlasId)) = 1
    /\ chats[d].lastWrite = "rejected"
    /\ commMessages[chats[d].atlasId].status = "pending"

====
